---- MODULE Spec2Model ----
(***************************************************************************)
(* CNG-RTK-HUB: the receiver aggregator (DriverManager), the NTRIP mount   *)
(* manager and client, and the three byte-stream frame extractors.         *)
(*                                                                         *)
(* The module holds several specifications over one set of variables:     *)
(*   SpecDM    the aggregator: registration, connect and removal of up to  *)
(*             three receiver ids                                         *)
(*   SpecStart   two receivers registered, connected, started, removed    *)
(*   SpecFanOut  two receivers and the fan-out of correction frames       *)
(*   SpecInject  injection into one receiver through its lifecycle        *)
(*   SpecMonitor one receiver, its fixes, its monitor and the sinks       *)
(*   SpecStop  stop_all_streams with one receiver and one NTRIP mount     *)
(*   SpecRTCM  NTRIPClient._stream_corrections: RTCM3 frames from chunks  *)
(*   SpecSerial  the two receiver drivers' frame extractors               *)
(*   SpecMM    the mount manager and its clients under every interleaving *)
(*             of calls, monitor rounds, stream events and time            *)
(*   SpecFailover  the mount manager started and left running, with the   *)
(*             event loop's fairness                                      *)
(*   SpecFix   the two drivers' decoders: position messages to fix records *)
(*   SpecAuth  the mount manager against a caster that answers 200 or 401 *)
(*   SpecRestart  one receiver connected, started, disconnected and       *)
(*             started again, with its monitor tasks                      *)
(*   SpecReader  one driver object, its serial links and reader tasks     *)
(*   SpecReaderFair  the same with the event loop's fairness              *)
(*   SpecResync  the RTCM3 extractor fed with preambles, frames and       *)
(*             broken frames                                              *)
(*   SpecStatus  the UM980 decoder's reading of the solution status       *)
(*   SpecBackoff  one mount whose stream breaks: the client's reconnects  *)
(*   SpecReselect  the mount manager left running in front of a caster    *)
(*             that serves one mount, with the event loop's fairness      *)
(* Each specification leaves the variables of the other parts at their    *)
(* initial values.                                                         *)
(***************************************************************************)
EXTENDS Integers, Sequences, FiniteSets, TLC

\* ---------------------------------------------------------------- bounds
\* correction frames handed to the aggregator in one behaviour
MaxCorrections == 1
\* connect_driver calls suspended at one time
MaxConnects == 1
\* driver objects constructed in one behaviour
MaxObjs == 3
\* other tasks and suspended calls of the aggregator alive at one time
MaxDmTasks == 2
\* fix records decoded in one behaviour
MaxFixes == 2
\* sinks registered with add_state_callback
MaxSinks == 2
\* bytes of NTRIP response body fed to the RTCM extractor in one behaviour
MaxBodyLen == 6
\* zero bytes a serial stream may carry before its first frame, per driver
UbxMaxPad == 8
UnicoreMaxPad == 28
\* NTRIPClient objects alive at one time, and coroutines suspended at one time
MaxClients == 3
MaxTasks == 4
\* calls of add_mount, remove_mount, start_ntrip_corrections and
\* stop_ntrip_corrections in one behaviour
MaxApiCalls == 6
\* the same calls in one behaviour of SpecStop
MaxStopApiCalls == 3
\* the longest response body of the specification with longer bodies
MaxResyncLen == 13
\* serial links one driver object opens, and reader tasks it has at a time
MaxLinks == 2
MaxReaders == 2

\* receiver ids a caller may pass (three, so that the capacity of two is hit)
Ids == {"r1", "r2", "r3"}
\* correction frames (opaque here; both 22 bytes long)
Frames == {"f1", "f2"}
FrameLen(f) == 22

\* ------------------------------------------------------------ DriverManager
ReceiverTypes == {"ZED_F9P", "UM980"}
\* the receiver behind each id
TypeOf(id) == IF id = "r2" THEN "UM980" ELSE "ZED_F9P"
DISCONNECTED == "DISCONNECTED"
CONNECTING == "CONNECTING"
CONNECTED == "CONNECTED"
STREAMING == "STREAMING"
ERROR == "ERROR"
MAX_DRIVERS == 2

VARIABLES
    drivers,          \* DriverManager.drivers: id -> driver object (its fields)
    driver_status,    \* DriverManager.driver_status: id -> lifecycle
    driver_configs,   \* DriverManager.driver_configs: id -> config
    drv_order,        \* insertion order of the keys of drivers (dict order)
    dm_running,       \* DriverManager.running
    dm_connects,      \* connect_driver calls suspended at driver.connect
    correction_stats, \* DriverManager.correction_stats
    dmLast,           \* the last aggregator operation and what it returned
    dm_objs,          \* how many driver objects add_driver has constructed
    dm_tasks,         \* the tasks and suspended calls of the aggregator, but
                      \* for those in dm_connects
    disconnect_calls, \* the driver objects whose disconnect() was invoked
    state_callbacks,  \* DriverManager.state_callbacks, as the kinds of sinks
    dispatched,       \* the (receiver, fix) pairs the monitors dispatched
    delivered         \* the (sink, receiver, fix) triples whose sink body ran

dmVars == <<drivers, driver_status, driver_configs, drv_order, dm_running,
            dm_connects, correction_stats, dmLast, dm_objs, dm_tasks,
            disconnect_calls, state_callbacks, dispatched, delivered>>

\* the RTCM extractor of one NTRIPClient stream task
VARIABLES
    rx_fed,           \* the response body received so far, all chunks joined
    rx_buffer,        \* _stream_corrections' local buffer
    rx_out,           \* the frames passed to correction_callback, in order
    rx_bytewise,      \* every chunk so far was one byte long
    bytes_received,   \* NTRIPClient.bytes_received
    corrections_sent  \* NTRIPClient.corrections_sent

rxVars == <<rx_fed, rx_buffer, rx_out, rx_bytewise, bytes_received,
            corrections_sent>>

\* the reader task (_data_processing_loop) of one receiver driver
VARIABLES
    sx_kind,          \* which driver: "UBX" (ZedF9PDriver), "UNICORE" (UM980Driver)
    sx_all,           \* the bytes the serial link delivers, B
    sx_pos,           \* how many of them have been read
    sx_buffer,        \* _data_processing_loop's local buffer
    sx_out            \* the messages handed to _process_*_message, in order

sxVars == <<sx_kind, sx_all, sx_pos, sx_buffer, sx_out>>

\* the decoder of one receiver driver (_process_ubx_message,
\* _process_unicore_message) and the fix record it keeps
VARIABLES
    fix_kind,         \* which driver: "UBX" (ZedF9PDriver), "UNICORE" (UM980Driver)
    current_state,    \* the driver's _current_state (NoState is None)
    fixLast           \* the last message decoded, and whether it was stored

fxVars == <<fix_kind, current_state, fixLast>>

\* one receiver driver object (ZedF9PDriver, UM980Driver), its serial links
\* and its reader tasks
VARIABLES
    rd_cur,           \* the link _serial_reader/_serial_writer refer to (0: None)
    rd_running,       \* the driver's _running
    rd_state,         \* the driver's _current_state (NoFix is None)
    rd_links,         \* the serial links connect() has opened, each "none",
                      \* "open", "broken" (reads raise) or "closed"
    rd_tasks,         \* the tasks start_data_stream has created
    rd_closing,       \* the link a suspended disconnect() waits on (0: none)
    rd_phase,         \* what the caller has done since the last disconnect()
    rdLast            \* the last step of the driver or of a reader task

rdVars == <<rd_cur, rd_running, rd_state, rd_links, rd_tasks, rd_closing,
            rd_phase, rdLast>>

\* the NTRIP side: NTRIPMountManager, its NTRIPClient objects, the tasks that
\* run its coroutines, and DriverManager.ntrip_enabled
VARIABLES
    mounts,           \* NTRIPMountManager.mounts: the list, as descriptor ids
    mount_status,     \* the MountStatus object of each descriptor
    active_client,    \* NTRIPMountManager.active_client (0 is None)
    active_mount,     \* NTRIPMountManager.active_mount ("none" is None)
    mm_running,       \* NTRIPMountManager.running
    mm_stop_event,    \* NTRIPMountManager._stop_event
    monitor_task,     \* NTRIPMountManager._monitor_task (0: None or finished)
    clients,          \* the NTRIPClient objects
    tasks,            \* the suspended coroutines, each at its await point
    ntrip_enabled,    \* DriverManager.ntrip_enabled
    mmLast,           \* the call that returned in the last step, if one did
    api_calls         \* how many calls of the NTRIP operations were made

mmVars == <<mounts, mount_status, active_client, active_mount, mm_running,
            mm_stop_event, monitor_task, clients, tasks, ntrip_enabled,
            mmLast, api_calls>>

vars == <<dmVars, rxVars, sxVars, mmVars, fxVars, rdVars>>
nonDM == <<rxVars, sxVars, mmVars, fxVars, rdVars>>
nonRX == <<dmVars, sxVars, mmVars, fxVars, rdVars>>
nonSX == <<dmVars, rxVars, mmVars, fxVars, rdVars>>
nonMM == <<dmVars, rxVars, sxVars, fxVars, rdVars>>
nonFX == <<dmVars, rxVars, sxVars, mmVars, rdVars>>
nonRD == <<dmVars, rxVars, sxVars, mmVars, fxVars>>

\* dictionary helpers: a dict is a function over the set of its keys
DictSet(d, k, v) == [x \in DOMAIN d \cup {k} |-> IF x = k THEN v ELSE d[x]]
DictDel(d, k) == [x \in DOMAIN d \ {k} |-> d[x]]
EmptyDict == [x \in {} |-> 0]
SeqDel(s, k) == SelectSeq(s, LAMBDA x: x # k)

\* what the operation that returned in the last step did (NoOp when none
\* returned): its return value ret, whether an exception
\* left it (raised), the registration mappings add_driver started from
\* (before), the
\* receivers whose start_data_stream it called (started) and for which it
\* created a monitor task (spawned), the frame a serial writer was handed
\* (written, "" when none was), and for a correction frame the inject calls
\* made and their results
NoOp == [op |-> "none", id |-> "", ret |-> FALSE, frame |-> "",
         calls |-> EmptyDict, results |-> EmptyDict, raised |-> FALSE,
         before |-> <<>>, started |-> {}, spawned |-> {}, written |-> ""]

\* fix records a decoder may store; NoFix is None
NoFix == "None"
Fixes == {"fix1", "fix2"}

\* a driver object as its constructor leaves it: writer is whether
\* _serial_reader and _serial_writer are set (connect sets both, disconnect
\* clears both), running is _running, state is _current_state; obj tells the
\* objects apart
NewDriver == [writer |-> FALSE, running |-> FALSE, state |-> NoFix, obj |-> 0]

\* a task or suspended call of the aggregator. kind and pc: "disconnect"
\* (_disconnect_driver: "start" when created by remove_driver and not yet
\* run, "closing" at wait_closed), "stop_all" (stop_all_streams, "closing"
\* inside one of its _disconnect_driver calls, rest the ids still to do),
\* "monitor" (_monitor_driver: "start", then "sleep"; last is last_state).
\* obj is the driver object the coroutine holds, or for a task not yet run
\* the object registered under id when it was created.
NewTask(kind, pc, id, obj) ==
    [kind |-> kind, pc |-> pc, id |-> id, obj |-> obj, rest |-> <<>>,
     last |-> NoFix, origin |-> "call", copy |-> 1]

\* --------------------------------------------- NTRIP: objects and constants
\* mount descriptors a caller may add
MountIds == {"m1", "m2"}
\* the priority each descriptor is added with when the mount list is built
\* by calls
PriorityOf(m) == IF m = "m1" THEN 1 ELSE 2
\* NTRIPMountManager's configuration; times are in units of 30 seconds
max_consecutive_failures == 3
retry_delay == 1
health_check_interval == 2
data_timeout == 4
\* aiohttp.ClientTimeout(total=30) of NTRIPClient.connect, in the same unit
ConnectTimeout == 1
\* a timestamp that is None
NoTime == -1

ClientIds == 1..MaxClients
TaskIds == 1..MaxTasks

\* a MountStatus as add_mount constructs it.  last_attempt and last_data_time
\* hold the time elapsed since the moment they record (now - timestamp),
\* counted up to one unit past the delay they are compared with.
NewMountStatus(priority, enabled) ==
    [enabled |-> enabled, priority |-> priority, connected |-> FALSE,
     last_attempt |-> NoTime, consecutive_failures |-> 0,
     last_data_time |-> NoTime]

\* an NTRIPClient as its constructor leaves it.  stream is the state of
\* _stream_task: "none", "live" (reading the body), "ended" (the body ended,
\* the task returned), "retry" (in _attempt_reconnect after a read error),
\* "done" (cancelled by disconnect).  reconnect_delay is in seconds.
initial_reconnect_delay == 1

max_reconnect_delay == 60

NewClient ==
    [connected |-> FALSE, stop_event |-> FALSE, session |-> FALSE,
     stream |-> "none", reconnect_delay |-> initial_reconnect_delay]

\* a task slot that holds no coroutine
FreeTask ==
    [kind |-> "free", pc |-> "none", site |-> "none", avail |-> <<>>,
     cur |-> "none", client |-> 0, waitfor |-> 0, timer |-> 0]

NoMMOp == [op |-> "none", ret |-> FALSE, start |-> "none"]

MMIdle ==
    /\ mounts = <<>>
    /\ mount_status = [m \in MountIds |-> NewMountStatus(0, TRUE)]
    /\ active_client = 0
    /\ active_mount = "none"
    /\ mm_running = FALSE
    /\ mm_stop_event = FALSE
    /\ monitor_task = 0
    /\ clients = [c \in ClientIds |-> NewClient]
    /\ tasks = [t \in TaskIds |-> FreeTask]
    /\ ntrip_enabled = FALSE
    /\ mmLast = NoMMOp
    /\ api_calls = 0

RXIdle ==
    /\ rx_fed = <<>>
    /\ rx_buffer = <<>>
    /\ rx_out = <<>>
    /\ rx_bytewise = TRUE
    /\ bytes_received = 0
    /\ corrections_sent = 0

SXIdle ==
    /\ sx_kind = "UBX"
    /\ sx_all = <<>>
    /\ sx_pos = 0
    /\ sx_buffer = <<>>
    /\ sx_out = <<>>

DMIdle ==
    /\ drivers = EmptyDict
    /\ driver_status = EmptyDict
    /\ driver_configs = EmptyDict
    /\ drv_order = <<>>
    /\ dm_running = FALSE
    /\ dm_connects = {}
    /\ correction_stats = [total_corrections |-> 0, total_bytes |-> 0]
    /\ dmLast = NoOp
    /\ dm_objs = 0
    /\ dm_tasks = {}
    /\ disconnect_calls = {}
    /\ state_callbacks = <<>>
    /\ dispatched = <<>>
    /\ delivered = <<>>

\* a driver that has decoded nothing yet
NoState == [fix |-> FALSE]
NoFixOp == [op |-> "none", stored |-> FALSE]
FXIdle ==
    /\ fix_kind = "UBX"
    /\ current_state = NoState
    /\ fixLast = NoFixOp

\* a reader task slot; on is the link the task reads, old whether a
\* disconnect() ran while the task was suspended in its read
FreeReader == [pc |-> "free", on |-> 0, old |-> FALSE]
NoRdOp == [op |-> "none", task |-> 0, old |-> FALSE]

LinkIds == 1..MaxLinks
ReaderIds == 1..MaxReaders

RDIdle ==
    /\ rd_cur = 0
    /\ rd_running = FALSE
    /\ rd_state = NoFix
    /\ rd_links = [l \in LinkIds |-> "none"]
    /\ rd_tasks = [t \in ReaderIds |-> FreeReader]
    /\ rd_closing = 0
    /\ rd_phase = "disconnected"
    /\ rdLast = NoRdOp

DMInit == DMIdle /\ RXIdle /\ SXIdle /\ MMIdle /\ FXIdle /\ RDIdle

\* add_driver: the two early returns (capacity, duplicate id)
add_driver_rejects_gt(id) ==
    \/ Cardinality(DOMAIN drivers) > MAX_DRIVERS
    \/ id \in DOMAIN drivers

add_driver_rejects(id) ==
    \/ Cardinality(DOMAIN drivers) >= MAX_DRIVERS
    \/ id \in DOMAIN drivers

\* the registration mappings
Registration == <<drivers, driver_status, driver_configs>>

\* add_driver(driver_id, receiver_type, port, baudrate)
AddDriver(id, rtype) ==
    /\ UNCHANGED nonDM
    /\ add_driver_rejects(id) \/ dm_objs < MaxObjs
    /\ dmLast' = [NoOp EXCEPT !.op = "add_driver", !.id = id,
                    !.ret = ~add_driver_rejects(id), !.before = Registration]
    /\ IF add_driver_rejects(id)
       THEN UNCHANGED <<drivers, driver_status, driver_configs, drv_order,
                        dm_objs>>
       ELSE /\ drivers' = DictSet(drivers, id,
                             [NewDriver EXCEPT !.obj = dm_objs + 1])
            /\ driver_status' = DictSet(driver_status, id, DISCONNECTED)
            /\ driver_configs' = DictSet(driver_configs, id,
                                    [type |-> rtype, port |-> "port", baudrate |-> 115200])
            /\ drv_order' = Append(drv_order, id)
            /\ dm_objs' = dm_objs + 1
    /\ UNCHANGED <<dm_running, dm_connects, correction_stats, dm_tasks,
                   disconnect_calls, state_callbacks, dispatched, delivered>>

\* asyncio.create_task: the new task joins the others (copy tells apart
\* tasks that are alike in everything else)
Spawn(ts, task) ==
    LET free == {k \in 1..(Cardinality(ts) + 1) :
                    [task EXCEPT !.copy = k] \notin ts}
    IN  ts \cup {[task EXCEPT !.copy =
                        CHOOSE k \in free : \A j \in free : k <= j]}

\* remove_driver: the three del statements
remove_driver_dels(id) ==
    <<DictDel(drivers, id), DictDel(driver_status, id),
      DictDel(driver_configs, id)>>

\* remove_driver(driver_id). The disconnect of a receiver that is not
\* DISCONNECTED is left to a new task, which gets the id; the registration
\* is deleted before that task runs. A connect_driver suspended on the
\* removed object keeps that object in its local variable: it is marked
\* stale, and whatever it does to the object no longer shows in drivers.
RemoveDriver(id) ==
    /\ UNCHANGED nonDM
    /\ dmLast' = [NoOp EXCEPT !.op = "remove_driver", !.id = id,
                    !.ret = (id \in DOMAIN drivers)]
    /\ IF id \notin DOMAIN drivers
       THEN UNCHANGED <<drivers, driver_status, driver_configs, drv_order,
                        dm_connects, dm_tasks>>
       ELSE /\ dm_tasks' =
                 IF driver_status[id] # DISCONNECTED
                 THEN Spawn(dm_tasks,
                        [NewTask("disconnect", "start", id, drivers[id].obj)
                            EXCEPT !.origin = "remove_driver"])
                 ELSE dm_tasks
            /\ Cardinality(dm_tasks') <= MaxDmTasks
            /\ drivers' = remove_driver_dels(id)[1]
            /\ driver_status' = remove_driver_dels(id)[2]
            /\ driver_configs' = remove_driver_dels(id)[3]
            /\ drv_order' = SeqDel(drv_order, id)
            /\ dm_connects' = {IF c.id = id THEN [c EXCEPT !.stale = TRUE] ELSE c :
                                 c \in dm_connects}
    /\ UNCHANGED <<dm_running, correction_stats, dm_objs, disconnect_calls,
                   state_callbacks, dispatched, delivered>>

\* connect_driver up to its await of driver.connect, or to its return when
\* the id is not registered
ConnectDriverBegin(id) ==
    /\ UNCHANGED nonDM
    /\ IF id \notin DOMAIN drivers
       THEN /\ dmLast' = [NoOp EXCEPT !.op = "connect_driver", !.id = id,
                            !.ret = FALSE]
            /\ UNCHANGED <<driver_status, dm_connects>>
       ELSE /\ Cardinality(dm_connects) < MaxConnects
            /\ [id |-> id, stale |-> FALSE] \notin dm_connects
            /\ driver_status' = DictSet(driver_status, id, CONNECTING)
            /\ dm_connects' = dm_connects \cup {[id |-> id, stale |-> FALSE]}
            /\ dmLast' = NoOp
    /\ UNCHANGED <<drivers, driver_configs, drv_order, dm_running,
                   correction_stats, dm_objs, dm_tasks, disconnect_calls,
                   state_callbacks, dispatched, delivered>>

\* what the await of driver.connect may end with: the driver returns True
\* (serial link opened) or False, raises ConnectionError, or another
\* exception leaves it (asyncio.CancelledError passes the drivers'
\* "except Exception"; a driver behind IGNSSDriver may raise anything)
ConnectOutcomes == {"true", "false", "ConnectionError", "other"}

\* connect_driver from the return of driver.connect. Only ConnectionError
\* is caught: another exception leaves connect_driver with the lifecycle
\* as it was.
ConnectDriverEnd(c, outcome) ==
    /\ UNCHANGED nonDM
    /\ c \in dm_connects
    /\ dm_connects' = dm_connects \ {c}
    /\ drivers' = IF outcome = "true" /\ ~c.stale
                  THEN [drivers EXCEPT ![c.id].writer = TRUE]
                  ELSE drivers
    /\ driver_status' =
         IF outcome = "other" THEN driver_status
         ELSE DictSet(driver_status, c.id,
                      IF outcome = "true" THEN CONNECTED ELSE ERROR)
    /\ dmLast' = [NoOp EXCEPT !.op = "connect_end", !.id = c.id,
                    !.ret = (outcome = "true"),
                    !.raised = (outcome = "other")]
    /\ UNCHANGED <<driver_configs, drv_order, dm_running, correction_stats,
                   dm_objs, dm_tasks, disconnect_calls, state_callbacks,
                   dispatched, delivered>>

\* The part of the aggregator that _disconnect_driver works on, as a
\* record d; ret and suspended tell how a run of it ended, id and obj which
\* receiver and driver object it is suspended on, rest which ids
\* stop_all_streams has still to do.
DMState ==
    [drivers |-> drivers, driver_status |-> driver_status,
     disconnect_calls |-> disconnect_calls, ret |-> FALSE,
     suspended |-> FALSE, id |-> "", obj |-> 0, rest |-> <<>>]

\* _disconnect_driver(id) from its entry to its return or to the await of
\* wait_closed in driver.disconnect(). disconnect() clears _running, and
\* with no serial link it does not suspend: it clears the fix and returns.
DisconnectBegin(d, id) ==
    IF id \notin DOMAIN d.drivers
    THEN [d EXCEPT !.ret = FALSE, !.suspended = FALSE]
    ELSE IF d.drivers[id].writer
    THEN [d EXCEPT !.drivers[id].running = FALSE,
                   !.disconnect_calls = @ \cup {d.drivers[id].obj},
                   !.suspended = TRUE, !.id = id, !.obj = d.drivers[id].obj]
    ELSE [d EXCEPT !.drivers[id].running = FALSE,
                   !.drivers[id].state = NoFix,
                   !.disconnect_calls = @ \cup {d.drivers[id].obj},
                   !.driver_status[id] = DISCONNECTED,
                   !.ret = TRUE, !.suspended = FALSE]

\* _disconnect_driver from the return of wait_closed: outcome "ok" (the
\* reader, the writer and the fix are cleared on the object the coroutine
\* holds, the lifecycle entry of the id is set) or "raise" (ERROR)
DisconnectFinish(d, t, outcome) ==
    IF outcome = "ok"
    THEN [d EXCEPT
            !.drivers = [x \in DOMAIN d.drivers |->
                           IF d.drivers[x].obj = t.obj
                           THEN [d.drivers[x] EXCEPT !.writer = FALSE,
                                                     !.state = NoFix]
                           ELSE d.drivers[x]],
            !.driver_status = DictSet(d.driver_status, t.id, DISCONNECTED),
            !.ret = TRUE]
    ELSE [d EXCEPT !.driver_status = DictSet(d.driver_status, t.id, ERROR),
                   !.ret = FALSE]

\* the loop of stop_all_streams over the ids it has still to do, up to the
\* first _disconnect_driver that suspends
RECURSIVE StopLoop(_, _)
StopLoop(d, rest) ==
    IF rest = <<>> THEN [d EXCEPT !.suspended = FALSE, !.rest = <<>>]
    ELSE IF DisconnectBegin(d, Head(rest)).suspended
    THEN [DisconnectBegin(d, Head(rest)) EXCEPT !.rest = Tail(rest)]
    ELSE StopLoop(DisconnectBegin(d, Head(rest)), Tail(rest))

\* the result d of a step becomes the next state of the receivers
SetDM(d) ==
    /\ drivers' = d.drivers
    /\ driver_status' = d.driver_status
    /\ disconnect_calls' = d.disconnect_calls

\* _disconnect_driver(driver_id), called by the HTTP API
DisconnectDriver(id) ==
    /\ UNCHANGED nonDM
    /\ \E d \in {DisconnectBegin(DMState, id)} :
          /\ SetDM(d)
          /\ dm_tasks' = IF d.suspended
                         THEN Spawn(dm_tasks,
                                 NewTask("disconnect", "closing", id, d.obj))
                         ELSE dm_tasks
          /\ Cardinality(dm_tasks') <= MaxDmTasks
          /\ dmLast' = IF d.suspended THEN NoOp
                       ELSE [NoOp EXCEPT !.op = "disconnect_end", !.id = id,
                                         !.ret = d.ret]
    /\ UNCHANGED <<driver_configs, drv_order, dm_running, dm_connects,
                   correction_stats, dm_objs, state_callbacks, dispatched,
                   delivered>>

\* the task remove_driver created runs _disconnect_driver
DisconnectTaskRun(t) ==
    /\ UNCHANGED nonDM
    /\ t \in dm_tasks /\ t.kind = "disconnect" /\ t.pc = "start"
    /\ \E d \in {DisconnectBegin(DMState, t.id)} :
          /\ SetDM(d)
          /\ dm_tasks' = IF d.suspended
                         THEN Spawn(dm_tasks \ {t},
                                 [t EXCEPT !.pc = "closing", !.obj = d.obj])
                         ELSE dm_tasks \ {t}
          /\ dmLast' = IF d.suspended THEN NoOp
                       ELSE [NoOp EXCEPT !.op = "disconnect_end", !.id = t.id,
                                         !.ret = d.ret]
    /\ UNCHANGED <<driver_configs, drv_order, dm_running, dm_connects,
                   correction_stats, dm_objs, state_callbacks, dispatched,
                   delivered>>

\* wait_closed returns or raises in a suspended _disconnect_driver; one
\* called by stop_all_streams goes on with the ids that are left
DisconnectEnd(t, outcome) ==
    /\ UNCHANGED nonDM
    /\ t \in dm_tasks /\ t.pc = "closing"
    /\ \E d \in {IF t.kind = "stop_all"
                 THEN StopLoop(DisconnectFinish(DMState, t, outcome), t.rest)
                 ELSE DisconnectFinish(DMState, t, outcome)} :
          /\ SetDM(d)
          /\ dm_tasks' = IF d.suspended
                         THEN Spawn(dm_tasks \ {t},
                                 [t EXCEPT !.id = d.id, !.obj = d.obj,
                                           !.rest = d.rest])
                         ELSE dm_tasks \ {t}
          /\ dmLast' = IF t.kind = "stop_all"
                       THEN IF d.suspended THEN NoOp
                            ELSE [NoOp EXCEPT !.op = "stop_all_streams"]
                       ELSE [NoOp EXCEPT !.op = "disconnect_end", !.id = t.id,
                                         !.ret = d.ret]
    /\ UNCHANGED <<driver_configs, drv_order, dm_running, dm_connects,
                   correction_stats, dm_objs, state_callbacks, dispatched,
                   delivered>>

\* start_all_streams visits the receivers whose lifecycle is CONNECTED
start_visits_error_too(x) ==
    x \in DOMAIN drivers /\ driver_status[x] \in {CONNECTED, ERROR}

start_visits(x) ==
    x \in DOMAIN drivers /\ driver_status[x] = CONNECTED

\* the monitor tasks start_all_streams creates, in dict order
RECURSIVE SpawnMonitors(_, _)
SpawnMonitors(order, ts) ==
    IF order = <<>> THEN ts
    ELSE SpawnMonitors(Tail(order),
            IF start_visits(Head(order)) /\ drivers[Head(order)].writer
            THEN Spawn(ts, NewTask("monitor", "start", Head(order),
                                      drivers[Head(order)].obj))
            ELSE ts)

\* start_all_streams: driver.start_data_stream does not suspend, so the loop
\* over the receivers runs in one step; start_data_stream raises when the
\* driver has no serial link, and else sets _running and creates the reader
StartAllStreams ==
    /\ UNCHANGED nonDM
    /\ dmLast' = [NoOp EXCEPT !.op = "start_all_streams",
                    !.ret = (DOMAIN drivers # {}),
                    !.started = {x \in DOMAIN drivers : start_visits(x)},
                    !.spawned = {x \in DOMAIN drivers :
                                    start_visits(x) /\ drivers[x].writer}]
    /\ IF DOMAIN drivers = {}
       THEN UNCHANGED <<dm_running, driver_status, drivers, dm_tasks>>
       ELSE /\ dm_running' = TRUE
            /\ driver_status' =
                 [x \in DOMAIN driver_status |->
                    IF start_visits(x)
                    THEN (IF drivers[x].writer THEN STREAMING ELSE ERROR)
                    ELSE driver_status[x]]
            /\ drivers' =
                 [x \in DOMAIN drivers |->
                    IF start_visits(x) /\ drivers[x].writer
                    THEN [drivers[x] EXCEPT !.running = TRUE]
                    ELSE drivers[x]]
            /\ dm_tasks' = SpawnMonitors(drv_order, dm_tasks)
            /\ Cardinality(dm_tasks') <= MaxDmTasks
    /\ UNCHANGED <<driver_configs, drv_order, dm_connects, correction_stats,
                   dm_objs, disconnect_calls, state_callbacks, dispatched,
                   delivered>>

\* The receivers _ntrip_correction_received injects into, in dict order.
\* outcome[id] is what that receiver's inject_corrections does when called:
\* "true", "false" or "raise". The result maps every registered id to the
\* sequence of frames its inject_corrections was called with.
\* (a loop that an exception leaves)
RECURSIVE InjectLoopStopsOnRaise(_, _, _, _)
InjectLoopStopsOnRaise(order, frame, outcome, calls) ==
    IF order = <<>> THEN calls
    ELSE LET id == Head(order)
             hit == driver_status[id] \in {CONNECTED, STREAMING}
         IN  IF hit /\ outcome[id] = "raise"
             THEN [calls EXCEPT ![id] = Append(@, frame)]
             ELSE InjectLoopStopsOnRaise(Tail(order), frame, outcome,
                        IF hit THEN [calls EXCEPT ![id] = Append(@, frame)]
                        ELSE calls)

RECURSIVE InjectLoop(_, _, _, _)
InjectLoop(order, frame, outcome, calls) ==
    IF order = <<>> THEN calls
    ELSE LET id == Head(order)
             hit == driver_status[id] \in {CONNECTED, STREAMING}
         IN  InjectLoop(Tail(order), frame, outcome,
                        IF hit THEN [calls EXCEPT ![id] = Append(@, frame)]
                        ELSE calls)

InjectCalls(frame, outcome) ==
    InjectLoop(drv_order, frame, outcome, [x \in DOMAIN drivers |-> <<>>])

\* _ntrip_correction_received(rtcm_data): what it does to the aggregator
CorrectionReceived(frame, outcome) ==
    /\ correction_stats.total_corrections < MaxCorrections
    /\ correction_stats' =
         [total_corrections |-> correction_stats.total_corrections + 1,
          total_bytes |-> correction_stats.total_bytes + FrameLen(frame)]
    /\ dmLast' = [NoOp EXCEPT !.op = "ntrip_correction", !.frame = frame,
                    !.calls = InjectCalls(frame, outcome),
                    !.results = [x \in {y \in DOMAIN drivers :
                                          InjectCalls(frame, outcome)[y] # <<>>}
                                  |-> outcome[x]]]
    /\ UNCHANGED <<drivers, driver_status, driver_configs, drv_order,
                   dm_running, dm_connects, dm_objs, dm_tasks,
                   disconnect_calls, state_callbacks, dispatched, delivered>>

\* _ntrip_correction_received(rtcm_data)
NtripCorrectionReceived(frame, outcome) ==
    /\ UNCHANGED nonDM
    /\ CorrectionReceived(frame, outcome)

InjectOutcomes == {"true", "false", "raise"}

\* ZedF9PDriver.inject_corrections / UM980Driver.inject_corrections on a
\* registered driver: False without a serial writer; else write(rtcm_data),
\* True when it returns and False when it raises (write is "ok" or "raise")
driver_inject_ignores_failure(id, write) == drivers[id].writer

driver_inject(id, write) == drivers[id].writer /\ write = "ok"

\* DriverManager.inject_corrections(driver_id, rtcm_data)
InjectCorrections(id, frame, write) ==
    /\ UNCHANGED nonDM
    /\ dmLast' = [NoOp EXCEPT !.op = "inject_corrections", !.id = id,
                    !.frame = frame,
                    !.ret = (id \in DOMAIN drivers /\ driver_inject(id, write)),
                    !.results = IF id \in DOMAIN drivers /\ drivers[id].writer
                                THEN [x \in {id} |-> write] ELSE EmptyDict,
                    !.written = IF id \in DOMAIN drivers /\ drivers[id].writer
                                THEN frame ELSE ""]
    /\ UNCHANGED <<drivers, driver_status, driver_configs, drv_order,
                   dm_running, dm_connects, correction_stats, dm_objs,
                   dm_tasks, disconnect_calls, state_callbacks, dispatched,
                   delivered>>

\* (a loop over the sinks that the first exception of a sink leaves)
RECURSIVE CallSinksStopsOnRaise(_, _, _, _)
CallSinksStopsOnRaise(i, id, fix, log) ==
    IF i > Len(state_callbacks) THEN log
    ELSE IF state_callbacks[i] = "raises"
    THEN Append(log, [sink |-> i, id |-> id, fix |-> fix])
    ELSE CallSinksStopsOnRaise(i + 1, id, fix,
            IF state_callbacks[i] # "async"
            THEN Append(log, [sink |-> i, id |-> id, fix |-> fix])
            ELSE log)

\* the sinks called with one fix, in list order: the body of a plain
\* function runs, to its end ("sync") or to the exception it raises
\* ("raises"), which is caught and logged before the next sink is called;
\* calling a coroutine function ("async") only makes a coroutine object,
\* which _monitor_driver drops without awaiting it
RECURSIVE CallSinks(_, _, _, _)
CallSinks(i, id, fix, log) ==
    IF i > Len(state_callbacks) THEN log
    ELSE CallSinks(i + 1, id, fix,
            IF state_callbacks[i] # "async"
            THEN Append(log, [sink |-> i, id |-> id, fix |-> fix])
            ELSE log)

\* (a test that takes every fix for an update)
state_updated_always(polled, last) ==
    polled # NoFix

\* _monitor_driver: "if current_state and current_state != last_state". A
\* GNSSState is a dataclass without __bool__ or __len__, so only None is
\* false, and != compares the fields
state_updated(polled, last) ==
    polled # NoFix /\ polled # last

\* _monitor_driver: its first lines (a task not yet run looks the driver up
\* and ends with KeyError when the id is gone), then one round of its loop,
\* to the sleep or to the end of the task. get_current_state of the two
\* drivers does not raise. An object that is no longer registered decodes
\* nothing in the specifications here, its fix is None.
MonitorRun(t) ==
    /\ UNCHANGED nonDM
    /\ t \in dm_tasks /\ t.kind = "monitor"
    /\ IF t.pc = "start" /\ t.id \notin DOMAIN drivers
       THEN /\ dm_tasks' = dm_tasks \ {t}
            /\ UNCHANGED <<dispatched, delivered>>
       ELSE LET obj == IF t.pc = "start" THEN drivers[t.id].obj ELSE t.obj
                going == /\ dm_running
                         /\ t.id \in DOMAIN drivers
                         /\ t.id \in DOMAIN driver_status
                         /\ driver_status[t.id] = STREAMING
                polled == IF going        /\ drivers[t.id].obj = obj
                                 THEN drivers[t.id].state ELSE NoFix
                changed == state_updated(polled, t.last)
            IN  /\ dm_tasks' =
                     IF going
                     THEN Spawn(dm_tasks \ {t},
                            [t EXCEPT !.pc = "sleep", !.obj = obj,
                                      !.last = IF changed THEN polled
                                               ELSE t.last])
                     ELSE dm_tasks \ {t}
                /\ dispatched' =
                     IF going /\ changed
                     THEN Append(dispatched, [id |-> t.id, fix |-> polled])
                     ELSE dispatched
                /\ delivered' =
                     IF going /\ changed
                     THEN CallSinks(1, t.id, polled, delivered)
                     ELSE delivered
    /\ Len(dispatched') <= MaxFixes
    /\ dmLast' = NoOp
    /\ UNCHANGED <<drivers, driver_status, driver_configs, drv_order,
                   dm_running, dm_connects, correction_stats, dm_objs,
                   disconnect_calls, state_callbacks>>

\* a round of _monitor_driver in which get_current_state raises (a driver
\* behind IGNSSDriver may; the two drivers of the repository return a
\* field): the outer handler marks the receiver ERROR and leaves the loop
MonitorPollRaises(t) ==
    /\ UNCHANGED nonDM
    /\ t \in dm_tasks /\ t.kind = "monitor"
    /\ dm_running
    /\ t.id \in DOMAIN drivers
    /\ t.id \in DOMAIN driver_status
    /\ driver_status[t.id] = STREAMING
    /\ dm_tasks' = dm_tasks \ {t}
    /\ driver_status' = DictSet(driver_status, t.id, ERROR)
    /\ dmLast' = [NoOp EXCEPT !.op = "monitor_raised", !.id = t.id]
    /\ UNCHANGED <<drivers, driver_configs, drv_order, dm_running,
                   dm_connects, correction_stats, dm_objs, disconnect_calls,
                   state_callbacks, dispatched, delivered>>

\* the reader of a streaming driver decodes a position message and stores
\* the fix (_process_ubx_message, _process_unicore_message)
FixDecoded(id, fix) ==
    /\ UNCHANGED nonDM
    /\ id \in DOMAIN drivers
    /\ drivers[id].running /\ drivers[id].writer
    /\ drivers[id].state # fix
    /\ Len(dispatched) < MaxFixes
    /\ drivers' = [drivers EXCEPT ![id].state = fix]
    /\ dmLast' = NoOp
    /\ UNCHANGED <<driver_status, driver_configs, drv_order, dm_running,
                   dm_connects, correction_stats, dm_objs, dm_tasks,
                   disconnect_calls, state_callbacks, dispatched, delivered>>

\* add_state_callback(callback): the callback is a plain function that
\* returns ("sync") or raises ("raises"), or a coroutine function ("async",
\* as RTKService._on_gnss_state_update is)
SinkKinds == {"sync", "raises", "async"}
AddStateCallback(kind) ==
    /\ UNCHANGED nonDM
    /\ Len(state_callbacks) < MaxSinks
    /\ state_callbacks' = Append(state_callbacks, kind)
    /\ dmLast' = NoOp
    /\ UNCHANGED <<drivers, driver_status, driver_configs, drv_order,
                   dm_running, dm_connects, correction_stats, dm_objs,
                   dm_tasks, disconnect_calls, dispatched, delivered>>

\* registration and connection of up to three ids, and the disconnect
\* tasks remove_driver creates
DMNext ==
    \/ \E id \in Ids : AddDriver(id, TypeOf(id))
    \/ \E id \in Ids : RemoveDriver(id)
    \/ \E id \in Ids : ConnectDriverBegin(id)
    \/ \E c \in dm_connects, o \in ConnectOutcomes : ConnectDriverEnd(c, o)
    \/ \E t \in dm_tasks : DisconnectTaskRun(t)
    \/ \E t \in dm_tasks, o \in {"ok", "raise"} : DisconnectEnd(t, o)

\* two receivers that are registered, connected, started and removed, and
\* the tasks these operations create
StreamIds == {"r1", "r2"}
StartNext ==
    \/ \E id \in StreamIds : AddDriver(id, TypeOf(id))
    \/ \E id \in StreamIds : RemoveDriver(id)
    \/ \E id \in StreamIds : ConnectDriverBegin(id)
    \/ \E c \in dm_connects, o \in ConnectOutcomes : ConnectDriverEnd(c, o)
    \/ \E t \in dm_tasks : DisconnectTaskRun(t)
    \/ \E t \in dm_tasks, o \in {"ok", "raise"} : DisconnectEnd(t, o)
    \/ StartAllStreams
    \/ \E t \in dm_tasks : MonitorRun(t)

SpecStart == DMInit /\ [][StartNext]_vars

\* two receivers that are connected and started, and the correction fan-out
FanOutNext ==
    \/ \E id \in StreamIds : AddDriver(id, TypeOf(id))
    \/ \E id \in StreamIds : ConnectDriverBegin(id)
    \/ \E c \in dm_connects, o \in ConnectOutcomes : ConnectDriverEnd(c, o)
    \/ StartAllStreams
    \/ \E t \in dm_tasks : MonitorRun(t)
    \/ \E f \in Frames, o \in [DOMAIN drivers -> InjectOutcomes] :
          NtripCorrectionReceived(f, o)

SpecFanOut == DMInit /\ [][FanOutNext]_vars

\* one receiver r1 that is connected and disconnected, and injection into
\* it and into r2, which is never registered
InjectNext ==
    \/ AddDriver("r1", TypeOf("r1"))
    \/ ConnectDriverBegin("r1")
    \/ \E c \in dm_connects, o \in ConnectOutcomes : ConnectDriverEnd(c, o)
    \/ DisconnectDriver("r1")
    \/ \E t \in dm_tasks, o \in {"ok", "raise"} : DisconnectEnd(t, o)
    \/ StartAllStreams
    \/ \E id \in StreamIds, f \in Frames, w \in {"ok", "raise"} :
          InjectCorrections(id, f, w)

SpecInject == DMInit /\ [][InjectNext]_vars

\* one receiver r1 that is connected and started, the fixes its reader
\* decodes, its monitor and the sinks registered for the fixes
MonitorNext ==
    \/ \E k \in SinkKinds : AddStateCallback(k)
    \/ AddDriver("r1", TypeOf("r1"))
    \/ ConnectDriverBegin("r1")
    \/ \E c \in dm_connects, o \in ConnectOutcomes : ConnectDriverEnd(c, o)
    \/ StartAllStreams
    \/ \E fix \in Fixes : FixDecoded("r1", fix)
    \/ \E t \in dm_tasks : MonitorRun(t)
    \/ \E t \in dm_tasks : MonitorPollRaises(t)

SpecMonitor == DMInit /\ [][MonitorNext]_vars

SpecDM == DMInit /\ [][DMNext]_vars

\* ------------------------------------------------- NTRIPClient: RTCM3 frames
\* byte values a response body is made of: the preamble 0xD3, 0x00 and the
\* three CRC bytes of the frame D3 00 00 (so that valid frames occur)
BodyBytes == {211, 0, 71, 234, 75}
CRC24Q_POLY == 25578747
PREAMBLE == 211

\* a ^ b for 0 <= a, b < 2^32, by halves
Xor1(a, b) == (a + b) % 2
Xor2(a, b) == Xor1(a % 2, b % 2) + (2 * Xor1(a \div 2, b \div 2))
Xor4(a, b) == Xor2(a % 4, b % 4) + (4 * Xor2(a \div 4, b \div 4))
Xor8(a, b) == Xor4(a % 16, b % 16) + (16 * Xor4(a \div 16, b \div 16))
Xor16(a, b) == Xor8(a % 256, b % 256) + (256 * Xor8(a \div 256, b \div 256))
BitXor(a, b) ==
    Xor16(a % 65536, b % 65536) + (65536 * Xor16(a \div 65536, b \div 65536))

\* the eight shift-and-conditional-xor rounds of one byte
RECURSIVE CrcRounds(_, _)
CrcRounds(crc, n) ==
    IF n = 0 THEN crc
    ELSE CrcRounds((IF (crc \div 8388608) % 2 = 1
                    THEN BitXor(crc * 2, CRC24Q_POLY)
                    ELSE crc * 2) % 16777216,
                   n - 1)

\* _calculate_crc24q(data): the loop over the bytes, c the checksum after
\* the first byte of data
RECURSIVE CrcFrom(_, _)
CrcFrom(crc, data) ==
    IF data = <<>> THEN crc
    ELSE CHOOSE r \in {CrcFrom(c, Tail(data)) :
                          c \in {CrcRounds(BitXor(crc, Head(data) * 65536), 8)}} :
            TRUE

calculate_crc24q(data) == CrcFrom(0, data)

\* _validate_rtcm_crc(message)
validate_rtcm_crc(message) ==
    IF Len(message) < 6 THEN FALSE
    ELSE LET n == Len(message)
             received_crc == (message[n - 2] * 65536) + (message[n - 1] * 256) + message[n]
         IN  received_crc = calculate_crc24q(SubSeq(message, 1, n - 3))

Drop(s, n) == SubSeq(s, n + 1, Len(s))

\* (an extractor that forwards every complete candidate, whatever its CRC)
RECURSIVE ProcessBufferNoCrc(_, _)
ProcessBufferNoCrc(buffer, out) ==
    IF Len(buffer) < 3 THEN [buffer |-> buffer, out |-> out]
    ELSE IF buffer[1] # PREAMBLE THEN ProcessBufferNoCrc(Tail(buffer), out)
    ELSE LET message_length == ((buffer[2] % 4) * 256) + buffer[3]
             total_length == message_length + 6
         IN  IF Len(buffer) < total_length
             THEN [buffer |-> buffer, out |-> out]
             ELSE ProcessBufferNoCrc(Drop(buffer, total_length),
                     Append(out, SubSeq(buffer, 1, total_length)))

\* (an extractor that throws the partial message away instead of waiting)
RECURSIVE ProcessBufferNoWait(_, _)
ProcessBufferNoWait(buffer, out) ==
    IF Len(buffer) < 3 THEN [buffer |-> buffer, out |-> out]
    ELSE IF buffer[1] # PREAMBLE THEN ProcessBufferNoWait(Tail(buffer), out)
    ELSE LET message_length == ((buffer[2] % 4) * 256) + buffer[3]
             total_length == message_length + 6
         IN  IF Len(buffer) < total_length
             THEN [buffer |-> <<>>, out |-> out]
             ELSE LET rtcm_message == SubSeq(buffer, 1, total_length)
                  IN  ProcessBufferNoWait(Drop(buffer, total_length),
                         IF validate_rtcm_crc(rtcm_message)
                         THEN Append(out, rtcm_message) ELSE out)

\* the inner loop of _stream_corrections ("while len(buffer) >= 3"): out are
\* the messages passed to correction_callback, buffer is what is left
RECURSIVE ProcessBuffer(_, _)
ProcessBuffer(buffer, out) ==
    IF Len(buffer) < 3 THEN [buffer |-> buffer, out |-> out]
    ELSE IF buffer[1] # PREAMBLE THEN ProcessBuffer(Tail(buffer), out)
    ELSE LET message_length == ((buffer[2] % 4) * 256) + buffer[3]
             total_length == message_length + 6
         IN  IF Len(buffer) < total_length
             THEN [buffer |-> buffer, out |-> out]
             ELSE LET rtcm_message == SubSeq(buffer, 1, total_length)
                  IN  ProcessBuffer(Drop(buffer, total_length),
                         IF validate_rtcm_crc(rtcm_message)
                         THEN Append(out, rtcm_message) ELSE out)

BodyChunks(maxlen) == UNION {[1..n -> BodyBytes] : n \in 1..maxlen}

\* one iteration of "async for chunk in response.content.iter_chunked(1024)"
StreamChunk(chunk) ==
    /\ UNCHANGED nonRX
    /\ rx_fed' = rx_fed \o chunk
    /\ rx_bytewise' = (rx_bytewise /\ Len(chunk) = 1)
    /\ bytes_received' = bytes_received + Len(chunk)
    /\ LET r == ProcessBuffer(rx_buffer \o chunk, <<>>)
       IN  /\ rx_buffer' = r.buffer
           /\ rx_out' = rx_out \o r.out
           /\ corrections_sent' = corrections_sent + Len(r.out)

RXNext ==
    \E chunk \in BodyChunks(MaxBodyLen - Len(rx_fed)) : StreamChunk(chunk)

RXInit == DMIdle /\ RXIdle /\ SXIdle /\ MMIdle /\ FXIdle /\ RDIdle

SpecRTCM == RXInit /\ [][RXNext]_vars

\* longer response bodies, made of fewer pieces: single preamble and zero
\* bytes, the header D3 00 00 of the frame without payload and its CRC, and
\* the header and payload D3 00 01 00 of a one-byte frame and its CRC
ResyncPieces ==
    {<<211>>, <<0>>, <<211, 0, 0>>, <<71, 234, 75>>, <<211, 0, 1, 0>>,
     <<10, 24, 141>>}

ResyncNext ==
    \E chunk \in ResyncPieces :
        Len(rx_fed) + Len(chunk) <= MaxResyncLen /\ StreamChunk(chunk)

SpecResync == RXInit /\ [][ResyncNext]_vars

\* ------------------------------------------------ receiver frame extractors
UBX_SYNC == <<181, 98>>
UNICORE_SYNC == <<170, 68, 18, 28>>

\* the first index at which pat occurs in buffer, 0 when it does not
\* (bytearray.find, and the search loop of the UM980 driver)
Find(buffer, pat) ==
    LET hits == {i \in 1..(Len(buffer) - Len(pat) + 1) :
                    SubSeq(buffer, i, i + Len(pat) - 1) = pat}
    IN  IF hits = {} THEN 0
        ELSE CHOOSE i \in hits : \A j \in hits : i <= j

\* ZedF9PDriver._data_processing_loop, the loop "while len(buffer) >= 8"
RECURSIVE UbxProcess(_, _)
UbxProcess(buffer, out) ==
    IF Len(buffer) < 8 THEN [buffer |-> buffer, out |-> out]
    ELSE LET sync_pos == Find(buffer, UBX_SYNC)
         IN  IF sync_pos = 0 THEN [buffer |-> <<>>, out |-> out]
             ELSE LET b == Drop(buffer, sync_pos - 1)
                  IN  IF Len(b) < 6 THEN [buffer |-> b, out |-> out]
                      ELSE LET msg_length == b[5] + (256 * b[6])
                               total_length == 6 + msg_length + 2
                           IN  IF Len(b) < total_length
                               THEN [buffer |-> b, out |-> out]
                               ELSE UbxProcess(Drop(b, total_length),
                                       Append(out, SubSeq(b, 1, total_length)))

\* UM980Driver._data_processing_loop, the loop "while len(buffer) >= 28"
RECURSIVE UnicoreProcess(_, _)
UnicoreProcess(buffer, out) ==
    IF Len(buffer) < 28 THEN [buffer |-> buffer, out |-> out]
    ELSE LET sync_pos == Find(buffer, UNICORE_SYNC)
         IN  IF sync_pos = 0 THEN [buffer |-> <<>>, out |-> out]
             ELSE LET b == Drop(buffer, sync_pos - 1)
                  IN  IF Len(b) < 28 THEN [buffer |-> b, out |-> out]
                      ELSE LET msg_length == b[9] + (256 * b[10])
                               total_length == 28 + msg_length + 4
                           IN  IF Len(b) < total_length
                               THEN [buffer |-> b, out |-> out]
                               ELSE UnicoreProcess(Drop(b, total_length),
                                       Append(out, SubSeq(b, 1, total_length)))

SerialProcess(kind, buffer, out) ==
    IF kind = "UBX" THEN UbxProcess(buffer, out) ELSE UnicoreProcess(buffer, out)

\* serial streams: zero bytes, then one or two frames.
\* UBX frame: sync, class 01, id 07, length 0, checksum 08 19.
\* Unicore frame: sync, 24 more header bytes (message id 42, payload
\* length 0), 4 trailer bytes.
Zeros(n) == [i \in 1..n |-> 0]
UbxFrame == <<181, 98, 1, 7, 0, 0, 8, 25>>
UnicoreFrame == UNICORE_SYNC \o <<42, 0>> \o Zeros(22) \o Zeros(4)
SerialStreams(kind) ==
    LET f == IF kind = "UBX" THEN UbxFrame ELSE UnicoreFrame
        maxpad == IF kind = "UBX" THEN UbxMaxPad ELSE UnicoreMaxPad
    IN  {Zeros(k) \o f \o t : k \in 0..maxpad, t \in {<<>>, f}}

SXInit ==
    /\ DMIdle /\ RXIdle /\ MMIdle /\ FXIdle /\ RDIdle
    /\ sx_kind \in {"UBX", "UNICORE"}
    /\ sx_all \in SerialStreams(sx_kind)
    /\ sx_pos = 0
    /\ sx_buffer = <<>>
    /\ sx_out = <<>>

\* one iteration of the reader loop: read(1024) returns the next n bytes
SerialRead(n) ==
    /\ UNCHANGED nonSX
    /\ sx_pos + n <= Len(sx_all)
    /\ sx_pos' = sx_pos + n
    /\ LET r == SerialProcess(sx_kind,
                    sx_buffer \o SubSeq(sx_all, sx_pos + 1, sx_pos + n), <<>>)
       IN  /\ sx_buffer' = r.buffer
           /\ sx_out' = sx_out \o r.out
    /\ UNCHANGED <<sx_kind, sx_all>>

SXNext == \E n \in 1..1024 : SerialRead(n)

SpecSerial == SXInit /\ [][SXNext]_vars

\* ------------------------------------------------- receiver drivers: decoders
\* Python integers are unbounded. An integer read from up to eight bytes is
\* kept as five 16-bit limbs, least significant first, in two's complement
\* (the fifth limb is the sign extension).
\* int.from_bytes(data, 'little', signed=signed)
from_bytes(data, signed) ==
    LET fill == IF signed /\ data[Len(data)] >= 128 THEN 65535 ELSE 0
    IN  [i \in 1..5 |-> IF 2 * i <= Len(data)
                        THEN data[2 * i - 1] + 256 * data[2 * i]
                        ELSE fill]

\* an integer literal of the source, -2^31 <= v < 2^31, in the same form
NumOf(v) ==
    [i \in 1..5 |-> IF i = 1 THEN v % 65536
                    ELSE IF i = 2 THEN (v \div 65536) % 65536
                    ELSE IF v < 0 THEN 65535 ELSE 0]

NumNeg(a) == a[5] >= 32768
\* a < b, a <= b, max(a, b)
NumLess(a, b) ==
    IF NumNeg(a) # NumNeg(b) THEN NumNeg(a)
    ELSE \E i \in 1..5 : a[i] < b[i] /\ \A j \in (i + 1)..5 : a[j] = b[j]
NumLeq(a, b) == a = b \/ NumLess(a, b)
NumMax(a, b) == IF NumLess(a, b) THEN b ELSE a

\* GNSSState, the fields the range contract is about. latitude and longitude
\* are kept in units of 1e-7 degree and accuracy_m in millimetres: the
\* source multiplies by 1e-7 / 1e-3 (ZED-F9P) or divides by 1e7 / 1000.0
\* (UM980) in IEEE doubles, which is monotone in the integer and exact at
\* 900000000 (90.0) and 1800000000 (180.0), so that a comparison of the
\* doubles with 90, 180 or 0 is the comparison of the integers below.
GNSSState(lat, lon, acc) ==
    [fix |-> TRUE, latitude |-> lat, longitude |-> lon, accuracy_m |-> acc]

\* a parser that raises returns no record
Raises(e) == [fix |-> FALSE, raised |-> e]

\* parse_ubx_nav_pvt(data): the fields at data[32:36], data[36:40] and
\* data[48:52]; ProtocolError when the message is shorter than 100 bytes
parse_ubx_nav_pvt(msg) ==
    IF msg.length < 100 THEN Raises("ProtocolError")
    ELSE GNSSState(from_bytes(msg.lat, TRUE), from_bytes(msg.lon, TRUE),
                   from_bytes(msg.h_acc, FALSE))

\* parse_unicore_bestpos(data): the fields at data[20:28], data[28:36],
\* data[44:48] and data[48:52]; data[4:20].decode('ascii') raises when one
\* of those bytes is above 127
parse_unicore_bestpos(msg) ==
    IF msg.length < 72 THEN Raises("ProtocolError")
    ELSE IF ~msg.ascii THEN Raises("UnicodeDecodeError")
    ELSE GNSSState(from_bytes(msg.lat, TRUE), from_bytes(msg.lon, TRUE),
                   NumMax(from_bytes(msg.lat_stdev, FALSE),
                          from_bytes(msg.lon_stdev, FALSE)))

\* the little-endian bytes of a 32-bit pattern given as a signed integer
Le32(v) == [i \in 1..4 |-> (v \div (256 ^ (i - 1))) % 256]

\* raw latitude and longitude fields: zero, a usual value, the values at and
\* next to the ends of the range, and the ends of the 32-bit integers
RawLat32 ==
    {0, 377749000, 900000000, 900000001, -900000000, -900000001,
     2147483647, -2147483647 - 1}
RawLon32 ==
    {0, -1224194000, 1800000000, 1800000001, -1800000000, -1800000001,
     2147483647, -2147483647 - 1}
\* 64-bit fields: a 32-bit value sign-extended, and values that differ from
\* one in range in the upper four bytes only
Wide(S) ==
    {Le32(v) \o Le32(IF v < 0 THEN -1 ELSE 0) : v \in S}
    \cup {Le32(0) \o Le32(1), Le32(900000000) \o Le32(-1),
          Le32(-900000000) \o Le32(0), Le32(-1) \o Le32(2147483647),
          Le32(0) \o Le32(-2147483647 - 1)}
\* unsigned 32-bit fields (millimetres): 0, 0.5 m and the largest
UInt32Fields == {Le32(0), Le32(500), Le32(-1)}

\* UBX-NAV-PVT messages (class 0x01, id 0x07) handed to _process_ubx_message
UbxNavPvtMessages ==
    [length : {99, 100}, checksum : BOOLEAN,
     lat : {Le32(v) : v \in RawLat32}, lon : {Le32(v) : v \in RawLon32},
     h_acc : UInt32Fields]
\* BESTPOS messages (id 42) handed to _process_unicore_message
UnicoreBestposMessages ==
    [length : {71, 72}, ascii : BOOLEAN,
     lat : Wide(RawLat32), lon : Wide(RawLon32),
     lat_stdev : UInt32Fields, lon_stdev : {Le32(500)}]

\* ZedF9PDriver._process_ubx_message for a NAV-PVT message: the checksum is
\* validated, then the message is parsed; an exception is caught and printed
ProcessUbxMessage(msg) ==
    /\ UNCHANGED nonFX
    /\ fix_kind = "UBX"
    /\ LET stored == msg.checksum /\ parse_ubx_nav_pvt(msg).fix
       IN  /\ current_state' = IF stored THEN parse_ubx_nav_pvt(msg)
                               ELSE current_state
           /\ fixLast' = [op |-> "ubx", stored |-> stored]
    /\ UNCHANGED fix_kind

\* UM980Driver._process_unicore_message for a BESTPOS message: parsed without
\* a check of the trailing CRC; an exception is caught and printed
ProcessUnicoreMessage(msg) ==
    /\ UNCHANGED nonFX
    /\ fix_kind = "UNICORE"
    /\ LET stored == parse_unicore_bestpos(msg).fix
       IN  /\ current_state' = IF stored THEN parse_unicore_bestpos(msg)
                               ELSE current_state
           /\ fixLast' = [op |-> "unicore", stored |-> stored]
    /\ UNCHANGED fix_kind

FXInit ==
    /\ DMIdle /\ RXIdle /\ SXIdle /\ MMIdle /\ RDIdle
    /\ fix_kind \in {"UBX", "UNICORE"}
    /\ current_state = NoState
    /\ fixLast = NoFixOp

FXNext ==
    \/ \E msg \in UbxNavPvtMessages : ProcessUbxMessage(msg)
    \/ \E msg \in UnicoreBestposMessages : ProcessUnicoreMessage(msg)

SpecFix == FXInit /\ [][FXNext]_vars

\* ------------------------------------- UM980: the solution status of BESTPOS
\* Byte strings are sequences of byte values. The keys of status_map, as the
\* ASCII codes of their characters:
SOL_COMPUTED == <<83, 79, 76, 95, 67, 79, 77, 80, 85, 84, 69, 68>>
INSUFFICIENT_OBS == <<73, 78, 83, 85, 70, 70, 73, 67, 73, 69, 78, 84, 95,
    79, 66, 83>>
NO_CONVERGENCE == <<78, 79, 95, 67, 79, 78, 86, 69, 82, 71, 69, 78, 67, 69>>
SINGULARITY == <<83, 73, 78, 71, 85, 76, 65, 82, 73, 84, 89>>
COV_TRACE == <<67, 79, 86, 95, 84, 82, 65, 67, 69>>
TEST_DIST == <<84, 69, 83, 84, 95, 68, 73, 83, 84>>
COLD_START == <<67, 79, 76, 68, 95, 83, 84, 65, 82, 84>>
V_H_LIMIT == <<86, 95, 72, 95, 76, 73, 77, 73, 84>>
VARIANCE == <<86, 65, 82, 73, 65, 78, 67, 69>>
RESIDUALS == <<82, 69, 83, 73, 68, 85, 65, 76, 83>>
DELTA_POS == <<68, 69, 76, 84, 65, 95, 80, 79, 83>>
NEGATIVE_VAR == <<78, 69, 71, 65, 84, 73, 86, 69, 95, 86, 65, 82>>
INTEGRITY_WARNING == <<73, 78, 84, 69, 71, 82, 73, 84, 89, 95, 87, 65, 82,
    78, 73, 78, 71>>
INS_INACTIVE == <<73, 78, 83, 95, 73, 78, 65, 67, 84, 73, 86, 69>>
INS_ALIGNING == <<73, 78, 83, 95, 65, 76, 73, 71, 78, 73, 78, 71>>
INS_BAD == <<73, 78, 83, 95, 66, 65, 68>>
IMU_UNPLUGGED == <<73, 77, 85, 95, 85, 78, 80, 76, 85, 71, 71, 69, 68>>
PENDING == <<80, 69, 78, 68, 73, 78, 71>>
INVALID_FIX == <<73, 78, 86, 65, 76, 73, 68, 95, 70, 73, 88>>

\* status_map of parse_unicore_bestpos, as the set of its items
status_map ==
    {<<SOL_COMPUTED, "FIX">>,
     <<INSUFFICIENT_OBS, "NO_FIX">>,
     <<NO_CONVERGENCE, "NO_FIX">>,
     <<SINGULARITY, "NO_FIX">>,
     <<COV_TRACE, "DGPS">>,
     <<TEST_DIST, "DGPS">>,
     <<COLD_START, "NO_FIX">>,
     <<V_H_LIMIT, "DGPS">>,
     <<VARIANCE, "DGPS">>,
     <<RESIDUALS, "DGPS">>,
     <<DELTA_POS, "DGPS">>,
     <<NEGATIVE_VAR, "DGPS">>,
     <<INTEGRITY_WARNING, "FLOAT">>,
     <<INS_INACTIVE, "DGPS">>,
     <<INS_ALIGNING, "DGPS">>,
     <<INS_BAD, "DGPS">>,
     <<IMU_UNPLUGGED, "DGPS">>,
     <<PENDING, "NO_FIX">>,
     <<INVALID_FIX, "NO_FIX">>}

\* status_map.get(sol_status, FixType.NO_FIX)
status_map_get(sol_status) ==
    IF \E e \in status_map : e[1] = sol_status
    THEN (CHOOSE e \in status_map : e[1] = sol_status)[2]
    ELSE "NO_FIX"

\* str.strip('\x00'): the NUL characters at both ends are removed
RECURSIVE strip_nul(_)
strip_nul(s) ==
    IF s = <<>> THEN s
    ELSE IF Head(s) = 0 THEN strip_nul(Tail(s))
    ELSE IF s[Len(s)] = 0 THEN strip_nul(SubSeq(s, 1, Len(s) - 1))
    ELSE s

\* data[4:20] of the frames handed to _process_unicore_message: sixteen
\* bytes that begin with the message id 42, with two NULs, with one more
\* byte or with nothing before a status name (or no name, a letter, a byte
\* that is not ASCII), cut or filled with NULs to sixteen bytes. Bytes 4..5
\* are the message id and bytes 8..9 the payload length, which the frame
\* extractor has used to cut the frame.
StatusTexts == {e[1] : e \in status_map} \cup {<<>>, <<88>>, <<200>>}
StatusHeads ==
    {SubSeq(p \o t \o Zeros(16), 1, 16) :
        p \in {<<42, 0>>, <<42, 0, 0, 0, 40, 0>>, <<0, 0>>, <<42>>, <<>>},
        t \in StatusTexts}

\* the message with these sixteen bytes, as parse_unicore_bestpos reads it:
\* its length is header, payload and CRC; the position fields are usual ones
BestposOf(head) ==
    [length |-> 28 + head[5] + (256 * head[6]) + 4,
     ascii |-> \A i \in 1..16 : head[i] < 128,
     lat |-> Le32(377749000) \o Le32(0),
     lon |-> Le32(-1224194000) \o Le32(-1),
     lat_stdev |-> Le32(500), lon_stdev |-> Le32(500)]

\* _process_unicore_message for a frame whose bytes 4..20 are head: the
\* message id is read from bytes 4..6, a frame with id 42 is parsed, and the
\* record is stored unless the parser raised; fix_type is looked up under
\* data[4:20].decode('ascii').strip('\x00')
ProcessUnicoreFrame(head) ==
    /\ UNCHANGED nonFX
    /\ fix_kind = "UNICORE"
    /\ LET msg_id == head[1] + (256 * head[2])
           parsed == parse_unicore_bestpos(BestposOf(head))
           stored == msg_id = 42 /\ parsed.fix
       IN  /\ current_state' =
                IF stored
                THEN [fix |-> TRUE,
                      fix_type |-> status_map_get(strip_nul(head)),
                      latitude |-> parsed.latitude,
                      longitude |-> parsed.longitude,
                      accuracy_m |-> parsed.accuracy_m]
                ELSE current_state
           /\ fixLast' = [op |-> "unicore_frame", stored |-> stored,
                          head |-> head]
    /\ UNCHANGED fix_kind

StatusNext == \E head \in StatusHeads : ProcessUnicoreFrame(head)

SpecStatus == FXInit /\ [][StatusNext]_vars

\* --------------------------------- receiver drivers: links and reader tasks
\* One driver object.  connect() opens a serial link and stores its reader and
\* writer; start_data_stream() creates a task running _data_processing_loop;
\* disconnect() clears _running, closes the link, waits for wait_closed and
\* then clears reader, writer and fix.  A reader task is suspended in
\* `await self._serial_reader.read(1024)` ("read", on the link it called read
\* on) or in `await asyncio.sleep(0.1)` ("sleep"); "new" is a task that has
\* not run yet.  StreamReader.read returns b'' at once on a link at EOF: a
\* loop that goes on reading such a link never yields ("spin"), and nothing
\* else runs any more.
NoSpin == \A t \in ReaderIds : rd_tasks[t].pc # "spin"

FreeReaders == {t \in ReaderIds : rd_tasks[t].pc = "free"}

\* `while self._running and self._serial_reader:` and what follows it for
\* task t: the next read, or the end of the task
loop_runs == rd_running /\ rd_cur # 0

LoopTest(t) ==
    IF loop_runs
    THEN [rd_tasks[t] EXCEPT
            !.pc = IF rd_links[rd_cur] = "closed" THEN "spin" ELSE "read",
            !.on = rd_cur]
    ELSE FreeReader

\* connect(): open_serial_connection returns a new link; the link the driver
\* held before, if any, is left open
RdConnect ==
    /\ UNCHANGED nonRD
    /\ NoSpin
    /\ \E l \in LinkIds :
          /\ rd_links[l] = "none"
          /\ \A k \in LinkIds : k < l => rd_links[k] # "none"
          /\ rd_links' = [rd_links EXCEPT ![l] = "open"]
          /\ rd_cur' = l
    /\ rd_phase' = IF rd_phase = "disconnected" THEN "connected" ELSE rd_phase
    /\ rdLast' = [NoRdOp EXCEPT !.op = "connect"]
    /\ UNCHANGED <<rd_running, rd_state, rd_tasks, rd_closing>>

\* start_data_stream(): ProtocolError without a reader, else _running = True
\* and a new reader task
RdStart ==
    /\ UNCHANGED nonRD
    /\ NoSpin
    /\ IF rd_cur = 0
       THEN /\ rdLast' = [NoRdOp EXCEPT !.op = "start_raised"]
            /\ UNCHANGED <<rd_running, rd_tasks, rd_phase>>
       ELSE /\ FreeReaders # {}
            /\ rd_running' = TRUE
            /\ \E t \in FreeReaders :
                  /\ \A u \in FreeReaders : t <= u
                  /\ rd_tasks' = [rd_tasks EXCEPT ![t] =
                                     [FreeReader EXCEPT !.pc = "new"]]
            /\ rd_phase' = IF rd_phase = "connected" THEN "started"
                           ELSE rd_phase
            /\ rdLast' = [NoRdOp EXCEPT !.op = "start"]
    /\ UNCHANGED <<rd_cur, rd_state, rd_links, rd_closing>>

\* disconnect() up to its await of wait_closed, or to its return when the
\* driver has no writer
RdDisconnect ==
    /\ UNCHANGED nonRD
    /\ NoSpin
    /\ rd_closing = 0
    /\ rd_running' = FALSE
    /\ rd_tasks' = [t \in ReaderIds |->
                      IF rd_tasks[t].pc = "read"
                      THEN [rd_tasks[t] EXCEPT !.old = TRUE]
                      ELSE rd_tasks[t]]
    /\ IF rd_cur # 0
       THEN /\ rd_links' = [rd_links EXCEPT ![rd_cur] =
                               IF @ = "open" THEN "closed" ELSE @]
            /\ rd_closing' = rd_cur
            /\ rd_phase' = "closing"
            /\ UNCHANGED <<rd_cur, rd_state>>
       ELSE /\ rd_state' = NoFix
            /\ rd_phase' = "disconnected"
            /\ UNCHANGED <<rd_cur, rd_links, rd_closing>>
    /\ rdLast' = [NoRdOp EXCEPT !.op = "disconnect"]

\* wait_closed returns: disconnect() clears reader, writer and fix and returns
RdClosed ==
    /\ UNCHANGED nonRD
    /\ NoSpin
    /\ rd_closing # 0
    /\ rd_cur' = 0
    /\ rd_state' = NoFix
    /\ rd_closing' = 0
    /\ rd_phase' = "disconnected"
    /\ rdLast' = [NoRdOp EXCEPT !.op = "disconnect_end"]
    /\ UNCHANGED <<rd_running, rd_links, rd_tasks>>

\* the device behind an open link fails: reads of the link raise from now on
LinkBreaks(l) ==
    /\ UNCHANGED nonRD
    /\ NoSpin
    /\ rd_links[l] = "open"
    /\ rd_links' = [rd_links EXCEPT ![l] = "broken"]
    /\ rdLast' = NoRdOp
    /\ UNCHANGED <<rd_cur, rd_running, rd_state, rd_tasks, rd_closing,
                   rd_phase>>

\* a new reader task runs for the first time
ReaderBegin(t) ==
    /\ UNCHANGED nonRD
    /\ NoSpin
    /\ rd_tasks[t].pc = "new"
    /\ rd_tasks' = [rd_tasks EXCEPT ![t] = LoopTest(t)]
    /\ rdLast' = [NoRdOp EXCEPT !.op = "begin", !.task = t]
    /\ UNCHANGED <<rd_cur, rd_running, rd_state, rd_links, rd_closing,
                   rd_phase>>

\* the read of task t returns bytes that hold a valid position message: the
\* message is decoded and the fix stored, then the loop goes on
ReadData(t, fix) ==
    /\ UNCHANGED nonRD
    /\ NoSpin
    /\ rd_tasks[t].pc = "read"
    /\ rd_links[rd_tasks[t].on] = "open"
    /\ rd_state # fix
    /\ rd_state' = fix
    /\ rd_tasks' = [rd_tasks EXCEPT ![t] = LoopTest(t)]
    /\ rdLast' = [op |-> "store", task |-> t, old |-> rd_tasks[t].old]
    /\ UNCHANGED <<rd_cur, rd_running, rd_links, rd_closing, rd_phase>>

\* the read of task t returns b'' (the link was closed): `continue`
ReadEof(t) ==
    /\ UNCHANGED nonRD
    /\ NoSpin
    /\ rd_tasks[t].pc = "read"
    /\ rd_links[rd_tasks[t].on] = "closed"
    /\ rd_tasks' = [rd_tasks EXCEPT ![t] = LoopTest(t)]
    /\ rdLast' = [NoRdOp EXCEPT !.op = "eof", !.task = t]
    /\ UNCHANGED <<rd_cur, rd_running, rd_state, rd_links, rd_closing,
                   rd_phase>>

\* the read of task t raises: the exception is printed, the task sleeps
ReadRaises(t) ==
    /\ UNCHANGED nonRD
    /\ NoSpin
    /\ rd_tasks[t].pc = "read"
    /\ rd_links[rd_tasks[t].on] = "broken"
    /\ rd_tasks' = [rd_tasks EXCEPT ![t].pc = "sleep"]
    /\ rdLast' = [NoRdOp EXCEPT !.op = "read_raised", !.task = t]
    /\ UNCHANGED <<rd_cur, rd_running, rd_state, rd_links, rd_closing,
                   rd_phase>>

\* asyncio.sleep(0.1) of task t is over: the loop goes on
ReaderWakes(t) ==
    /\ UNCHANGED nonRD
    /\ NoSpin
    /\ rd_tasks[t].pc = "sleep"
    /\ rd_tasks' = [rd_tasks EXCEPT ![t] = LoopTest(t)]
    /\ rdLast' = [NoRdOp EXCEPT !.op = "wake", !.task = t]
    /\ UNCHANGED <<rd_cur, rd_running, rd_state, rd_links, rd_closing,
                   rd_phase>>

RDNext ==
    \/ RdConnect
    \/ RdStart
    \/ RdDisconnect
    \/ RdClosed
    \/ \E l \in LinkIds : LinkBreaks(l)
    \/ \E t \in ReaderIds :
          \/ ReaderBegin(t)
          \/ \E fix \in Fixes : ReadData(t, fix)
          \/ ReadEof(t)
          \/ ReadRaises(t)
          \/ ReaderWakes(t)

RDInit == DMIdle /\ RXIdle /\ SXIdle /\ MMIdle /\ FXIdle /\ RDIdle

SpecReader == RDInit /\ [][RDNext]_vars

\* what the event loop guarantees to a reader task: a task that can run does
\* run, a sleep ends, a read of a failed or closed link returns.  Nothing is
\* assumed of the callers and of the device.
ReaderFairness ==
    \A t \in ReaderIds :
        /\ WF_vars(ReaderBegin(t))
        /\ WF_vars(ReadEof(t))
        /\ WF_vars(ReadRaises(t))
        /\ WF_vars(ReaderWakes(t))

SpecReaderFair == RDInit /\ [][RDNext]_vars /\ ReaderFairness

\* ------------------------------------------------------ NTRIPMountManager
\* The coroutines of the mount manager are written as functions of the NTRIP
\* state s: a record with one field per variable of mmVars, and ok, which is
\* FALSE when a step would need more clients or tasks than the bounds allow.
\* A function runs its coroutine from one await point to the next.  The
\* awaits that suspend are: the wait for a cancelled stream task in
\* NTRIPClient.disconnect, the HTTP request in NTRIPClient.connect, the
\* monitor's sleep, and stop()'s wait for the monitor task.
MMState ==
    [mounts |-> mounts, mount_status |-> mount_status,
     active_client |-> active_client, active_mount |-> active_mount,
     mm_running |-> mm_running, mm_stop_event |-> mm_stop_event,
     monitor_task |-> monitor_task, clients |-> clients, tasks |-> tasks,
     ntrip_enabled |-> ntrip_enabled, mmLast |-> NoMMOp, ok |-> TRUE]

Min(S) == CHOOSE x \in S : \A y \in S : x <= y

\* the one element of a set.  The functions below take the state they start
\* from as s0 and work it out once: Only({ ... : s \in {s0}})
Only(S) == CHOOSE r \in S : TRUE

\* clients nothing refers to and whose stream task is not running
FreeClients(s) ==
    {c \in ClientIds :
        /\ s.active_client # c
        /\ s.clients[c].stream \notin {"live", "retry"}
        /\ \A t \in TaskIds : s.tasks[t].client # c}
FreeTasks(s) == {t \in TaskIds : s.tasks[t].kind = "free"}

\* objects nothing refers to are forgotten
Collect(s0) ==
    Only({(
        [s EXCEPT !.clients = [c \in ClientIds |->
            IF c \in FreeClients(s) THEN NewClient ELSE s.clients[c]]]
        ) : s \in {s0}})

\* the step's result n becomes the next state of the NTRIP side
SetMM(n) ==
    \E g \in {Collect(n)} :
        /\ g.ok
        /\ mounts' = g.mounts
        /\ mount_status' = g.mount_status
        /\ active_client' = g.active_client
        /\ active_mount' = g.active_mount
        /\ mm_running' = g.mm_running
        /\ mm_stop_event' = g.mm_stop_event
        /\ monitor_task' = g.monitor_task
        /\ clients' = g.clients
        /\ tasks' = g.tasks
        /\ ntrip_enabled' = g.ntrip_enabled
        /\ mmLast' = g.mmLast

\* a coroutine returns: its task is finished, whoever awaits it may go on
EndTask(s0, t) ==
    Only({(
        [s EXCEPT !.tasks = [u \in TaskIds |->
                      IF u = t THEN FreeTask
                      ELSE IF s.tasks[u].waitfor = t
                           THEN [s.tasks[u] EXCEPT !.waitfor = 0]
                           ELSE s.tasks[u]],
                  !.monitor_task = IF @ = t THEN 0 ELSE @]
        ) : s \in {s0}})

\* list.sort(key=lambda m: m.priority): stable insertion of the new last element
RECURSIVE InsertByPriority(_, _, _)
InsertByPriority(ms, sorted, m) ==
    IF sorted = <<>> THEN <<m>>
    ELSE IF ms[m].priority < ms[Head(sorted)].priority
         THEN <<m>> \o sorted
         ELSE <<Head(sorted)>> \o InsertByPriority(ms, Tail(sorted), m)

\* the sort key of _connect_best_mount: (consecutive_failures, priority)
KeyLess(ms, a, b) ==
    \/ ms[a].consecutive_failures < ms[b].consecutive_failures
    \/ /\ ms[a].consecutive_failures = ms[b].consecutive_failures
       /\ ms[a].priority < ms[b].priority

RECURSIVE InsertByKey(_, _, _)
InsertByKey(ms, sorted, m) ==
    IF sorted = <<>> THEN <<m>>
    ELSE IF KeyLess(ms, m, Head(sorted))
         THEN <<m>> \o sorted
         ELSE <<Head(sorted)>> \o InsertByKey(ms, Tail(sorted), m)

\* available_mounts.sort(key=...): a stable sort
RECURSIVE SortByKey(_, _)
SortByKey(ms, list) ==
    IF list = <<>> THEN <<>>
    ELSE InsertByKey(ms, SortByKey(ms, SubSeq(list, 1, Len(list) - 1)),
                     list[Len(list)])

\* the filter of _connect_best_mount
Available(s, m) ==
    /\ s.mount_status[m].enabled
    /\ s.mount_status[m].consecutive_failures < max_consecutive_failures

AvailableMounts(s0) ==
    Only({(
        SortByKey(s.mount_status, SelectSeq(s.mounts, LAMBDA m: Available(s, m)))
        ) : s \in {s0}})

\* whether _retry_failed_mounts resets descriptor m: its count has reached
\* the limit, it has been attempted, and more than retry_delay ago
retry_resets_above_limit(s, m) ==
    /\ s.mount_status[m].consecutive_failures > max_consecutive_failures
    /\ s.mount_status[m].last_attempt # NoTime
    /\ s.mount_status[m].last_attempt > retry_delay

retry_resets(s, m) ==
    /\ s.mount_status[m].consecutive_failures >= max_consecutive_failures
    /\ s.mount_status[m].last_attempt # NoTime
    /\ s.mount_status[m].last_attempt > retry_delay

\* _retry_failed_mounts
RetryFailedMounts(s0) ==
    Only({(
        [s EXCEPT !.mount_status = [m \in MountIds |->
            IF /\ \E i \in 1..Len(s.mounts) : s.mounts[i] = m
               /\ retry_resets(s, m)
            THEN [s.mount_status[m] EXCEPT !.consecutive_failures = 0]
            ELSE s.mount_status[m]]]
        ) : s \in {s0}})

\* _monitor_connections, from the end of one round to the next sleep
MonitorLoop(s0, t) ==
    Only({(
        IF s.mm_stop_event THEN EndTask(s, t)
        ELSE [s EXCEPT !.tasks[t] = [FreeTask EXCEPT !.kind = "monitor",
                                                     !.pc = "sleep"]]
        ) : s \in {s0}})

\* _check_connection_health has returned to _monitor_connections, which
\* calls _retry_failed_mounts and loops; mmLast tells the descriptors whose
\* count the round has reset
HealthReturn(s0, t) ==
    Only({(
        LET r == RetryFailedMounts(s)
        IN  MonitorLoop(
              [r EXCEPT !.mmLast =
                  [op |-> "monitor_round", ret |-> TRUE, start |-> "none",
                   reset |-> {m \in MountIds :
                                r.mount_status[m] # s.mount_status[m]}]],
              t)
        ) : s \in {s0}})

\* NTRIPMountManager.start returns ret to start_ntrip_corrections, which sets
\* ntrip_enabled on success and returns ret
ReturnStart(s0, ret) ==
    Only({(
        [s EXCEPT !.ntrip_enabled = IF ret THEN TRUE ELSE @,
                  !.mmLast = [op |-> "start_ntrip_corrections", ret |-> ret,
                              start |-> IF ret THEN "true" ELSE "false"]]
        ) : s \in {s0}})

\* _connect_best_mount returns ret to its caller: start() or the monitor
SelectionReturn(s0, t, ret) ==
    Only({(
        IF s.tasks[t].kind = "start"
        THEN ReturnStart(EndTask(s, t), ret)
        ELSE HealthReturn(s, t)
        ) : s \in {s0}})

\* NTRIPMountManager.stop returns to stop_ntrip_corrections
StopReturn(s0, t) ==
    Only({(
        [EndTask(s, t) EXCEPT
            !.ntrip_enabled = FALSE,
            !.mmLast = [op |-> "stop_ntrip_corrections", ret |-> TRUE,
                        start |-> "none"]]
        ) : s \in {s0}})

\* NTRIPClient.disconnect from `await self._cleanup()` on
ClientDisconnectEnd(s0, c) ==
    Only({(
        [s EXCEPT !.clients[c].session = FALSE, !.clients[c].connected = FALSE]
        ) : s \in {s0}})

\* _disconnect_active, its second half
DisconnectActiveMount(s0) ==
    Only({(
        IF s.active_mount # "none"
        THEN [s EXCEPT !.mount_status[s.active_mount].connected = FALSE,
                       !.active_mount = "none"]
        ELSE s
        ) : s \in {s0}})

\* _attempt_connection from `self.active_client = NTRIPClient(...)` to the
\* HTTP request of connect()
AttemptConnect(s0, t) ==
    Only({(
        IF FreeClients(s) = {} THEN [s EXCEPT !.ok = FALSE]
        ELSE LET c == Min(FreeClients(s))
                 m == s.tasks[t].cur
             IN  [s EXCEPT !.active_client = c,
                           !.clients[c] = [NewClient EXCEPT !.session = TRUE],
                           !.mount_status[m].last_attempt = 0,
                           !.tasks[t].pc = "connect",
                           !.tasks[t].site = "none",
                           !.tasks[t].client = c,
                           !.tasks[t].timer = 0]
        ) : s \in {s0}})

RECURSIVE DisconnectActive(_, _, _)
RECURSIVE Continue(_, _, _)
RECURSIVE AttemptNext(_, _)

\* _connect_best_mount: the snapshot of the eligible descriptors, sorted, then
\* the loop over it
ConnectBestMount(s0, t) ==
    Only({(
        LET available_mounts == AvailableMounts(s)
        IN  IF available_mounts = <<>> THEN SelectionReturn(s, t, FALSE)
            ELSE AttemptNext([s EXCEPT !.tasks[t].avail = available_mounts], t)
        ) : s \in {s0}})

\* the for loop of _connect_best_mount takes its next descriptor and calls
\* _attempt_connection, which first disconnects the active client
AttemptNext(s0, t) ==
    Only({(
        IF s.tasks[t].avail = <<>> THEN SelectionReturn(s, t, FALSE)
        ELSE DisconnectActive(
                [s EXCEPT !.tasks[t].cur = Head(s.tasks[t].avail),
                          !.tasks[t].avail = Tail(s.tasks[t].avail)],
                t, "attempt")
        ) : s \in {s0}})

\* what follows a call of _disconnect_active, by the place of the call
Continue(s0, t, site) ==
    Only({(
        CASE site = "attempt" -> AttemptConnect(s, t)
          [] site = "failed" -> AttemptNext(s, t)
          [] site = "failover" -> ConnectBestMount(s, t)
          [] site = "stop" -> StopReturn(s, t)
          [] site = "deferred" -> EndTask(s, t)
        ) : s \in {s0}})

\* _disconnect_active, called by task t at the place site.  disconnect() of a
\* client whose stream task runs cancels the task and suspends until it has
\* finished; the cancelled task delivers nothing more.
DisconnectActive(s0, t, site) ==
    Only({(
        IF s.active_client # 0
        THEN LET c == s.active_client
                 s1 == [s EXCEPT !.clients[c].stop_event = TRUE]
             IN  IF s.clients[c].stream \in {"live", "retry"}
                 THEN [s1 EXCEPT !.clients[c].stream = "done",
                                 !.tasks[t].pc = "disconnect",
                                 !.tasks[t].site = site,
                                 !.tasks[t].client = c,
                                 !.tasks[t].timer = 0]
                 ELSE Continue(DisconnectActiveMount(
                          [ClientDisconnectEnd(s1, c) EXCEPT !.active_client = 0]),
                          t, site)
        ELSE Continue(DisconnectActiveMount(s), t, site)
        ) : s \in {s0}})

\* what _handle_failover makes of the active descriptor before it disconnects
failover_counted_twice(d) ==
    [d EXCEPT !.consecutive_failures = @ + 2]

failover_counted(d) ==
    [d EXCEPT !.consecutive_failures = @ + 1]

\* _handle_failover
HandleFailover(s0, t) ==
    Only({(
        DisconnectActive(
            IF s.active_mount # "none"
            THEN [s EXCEPT !.mount_status[s.active_mount] = failover_counted(@)]
            ELSE s,
            t, "failover")
        ) : s \in {s0}})

\* a health check that leaves a manager without active connection alone
CheckConnectionHealthNoReselect(s0, t) ==
    Only({(
        IF s.active_mount = "none" \/ s.active_client = 0
        THEN HealthReturn(s, t)
        ELSE IF ~ s.clients[s.active_client].connected
        THEN HandleFailover(s, t)
        ELSE IF /\ s.mount_status[s.active_mount].last_data_time # NoTime
                /\ s.mount_status[s.active_mount].last_data_time > data_timeout
        THEN HandleFailover(s, t)
        ELSE HealthReturn(s, t)
        ) : s \in {s0}})

\* _check_connection_health
CheckConnectionHealth(s0, t) ==
    Only({(
        IF s.active_mount = "none" \/ s.active_client = 0
        THEN ConnectBestMount(s, t)
        ELSE IF ~ s.clients[s.active_client].connected
        THEN HandleFailover(s, t)
        ELSE IF /\ s.mount_status[s.active_mount].last_data_time # NoTime
                /\ s.mount_status[s.active_mount].last_data_time > data_timeout
        THEN HandleFailover(s, t)
        ELSE HealthReturn(s, t)
        ) : s \in {s0}})

\* NTRIPMountManager.start, called by start_ntrip_corrections as task t
Start(s0, t) ==
    Only({(
        IF s.mm_running THEN ReturnStart(s, TRUE)
        ELSE IF s.mounts = <<>> THEN ReturnStart(s, FALSE)
        ELSE IF FreeTasks(s) \ {t} = {} THEN [s EXCEPT !.ok = FALSE]
        ELSE LET mt == Min(FreeTasks(s) \ {t})
             IN  ConnectBestMount(
                    [s EXCEPT !.mm_running = TRUE,
                              !.mm_stop_event = FALSE,
                              !.monitor_task = mt,
                              !.tasks[mt] = [FreeTask EXCEPT !.kind = "monitor",
                                                             !.pc = "sleep"],
                              !.tasks[t] = [FreeTask EXCEPT !.kind = "start"]],
                    t)
        ) : s \in {s0}})

\* NTRIPMountManager.stop, called by stop_ntrip_corrections as task t, up to
\* its wait for the monitor task.  A monitor in its sleep ends (the stop
\* event is set and the task cancelled), one cancelled in a connect ends
\* (CancelledError is not caught there); one cancelled while it waits in
\* NTRIPClient.disconnect goes on, because disconnect() catches
\* CancelledError.
Stop(s0, t) ==
    Only({(
        LET s1 == [s EXCEPT !.mm_running = FALSE, !.mm_stop_event = TRUE,
                            !.tasks[t] = [FreeTask EXCEPT !.kind = "stop"]]
            mt == s.monitor_task
        IN  IF mt = 0 THEN DisconnectActive(s1, t, "stop")
            ELSE IF s.tasks[mt].pc = "disconnect"
            THEN [s1 EXCEPT !.tasks[t].pc = "wait_monitor", !.tasks[t].waitfor = mt]
            ELSE [EndTask(s1, mt) EXCEPT !.tasks[t].pc = "wait_monitor"]
        ) : s \in {s0}})

\* ---- the operations and events of the NTRIP side, one action each

\* add_mount (through add_ntrip_mount): a new MountStatus, appended, the list
\* sorted by priority.  A descriptor is added again only when nothing refers
\* to its former MountStatus.
AddMount(m, priority, enabled) ==
    /\ UNCHANGED nonMM
    /\ api_calls < MaxApiCalls
    /\ api_calls' = api_calls + 1
    /\ \A i \in 1..Len(mounts) : mounts[i] # m
    /\ active_mount # m
    /\ \A t \in TaskIds :
          /\ tasks[t].cur # m
          /\ \A i \in 1..Len(tasks[t].avail) : tasks[t].avail[i] # m
    /\ LET ms == [mount_status EXCEPT ![m] = NewMountStatus(priority, enabled)]
       IN  SetMM([MMState EXCEPT !.mount_status = ms,
                                 !.mounts = InsertByPriority(ms, mounts, m)])

\* remove_mount: the disconnect of an active descriptor is left to a new task
RemoveMount(m) ==
    /\ UNCHANGED nonMM
    /\ api_calls < MaxApiCalls
    /\ api_calls' = api_calls + 1
    /\ \E i \in 1..Len(mounts) : mounts[i] = m
    /\ LET s == [MMState EXCEPT !.mounts = SeqDel(mounts, m)]
       IN  IF active_mount = m
           THEN /\ FreeTasks(s) # {}
                /\ SetMM([s EXCEPT !.tasks[Min(FreeTasks(s))] =
                            [FreeTask EXCEPT !.kind = "deferred", !.pc = "new"]])
           ELSE SetMM(s)

\* the task remove_mount created runs _disconnect_active
DeferredDisconnect(t) ==
    /\ UNCHANGED <<nonMM, api_calls>>
    /\ tasks[t].kind = "deferred" /\ tasks[t].pc = "new"
    /\ SetMM(DisconnectActive(MMState, t, "deferred"))

\* start_ntrip_corrections
StartNtripCorrections ==
    /\ UNCHANGED nonMM
    /\ api_calls < MaxApiCalls
    /\ api_calls' = api_calls + 1
    /\ IF ntrip_enabled
       THEN SetMM([MMState EXCEPT !.mmLast =
                [op |-> "start_ntrip_corrections", ret |-> TRUE,
                 start |-> "none"]])
       ELSE IF mm_running \/ mounts = <<>>
       THEN SetMM(Start(MMState, 0))
       ELSE /\ FreeTasks(MMState) # {}
            /\ SetMM(Start(MMState, Min(FreeTasks(MMState))))

\* stop_ntrip_corrections
StopNtripCorrections ==
    /\ UNCHANGED nonMM
    /\ api_calls < MaxApiCalls
    /\ api_calls' = api_calls + 1
    /\ IF ~ ntrip_enabled
       THEN SetMM([MMState EXCEPT !.mmLast =
                [op |-> "stop_ntrip_corrections", ret |-> TRUE,
                 start |-> "none"]])
       ELSE /\ FreeTasks(MMState) # {}
            /\ SetMM(Stop(MMState, Min(FreeTasks(MMState))))

\* stop() goes on once the monitor task has finished
StopAfterMonitor(t) ==
    /\ UNCHANGED <<nonMM, api_calls>>
    /\ tasks[t].pc = "wait_monitor" /\ tasks[t].waitfor = 0
    /\ SetMM(DisconnectActive(MMState, t, "stop"))

\* a task suspended in NTRIPClient.disconnect goes on: the stream task has
\* finished; _cleanup, connected = False, then the rest of _disconnect_active
DisconnectDoneMM(t) ==
    LET c == tasks[t].client
        s == [ClientDisconnectEnd(MMState, c) EXCEPT
                 !.active_client = 0, !.tasks[t].client = 0,
                 !.tasks[t].pc = "none"]
    IN  Continue(DisconnectActiveMount(s), t, tasks[t].site)

DisconnectDone(t) ==
    /\ UNCHANGED <<nonMM, api_calls>>
    /\ tasks[t].pc = "disconnect"
    /\ SetMM(DisconnectDoneMM(t))

\* what a successful connect() makes of the attempted descriptor
connected_status_keeps_failures(d) ==
    [d EXCEPT !.connected = TRUE]

connected_status(d) ==
    [d EXCEPT !.connected = TRUE, !.consecutive_failures = 0]

\* NTRIPClient.connect returns to _attempt_connection.  A request whose
\* session another task has closed meanwhile fails.
ConnectDone(t, success) ==
    /\ UNCHANGED <<nonMM, api_calls>>
    /\ tasks[t].pc = "connect"
    /\ LET c == tasks[t].client
           m == tasks[t].cur
       IN  /\ success => clients[c].session
           /\ IF success
              THEN SetMM(SelectionReturn(
                     [MMState EXCEPT
                        !.clients[c].connected = TRUE,
                        !.clients[c].reconnect_delay = initial_reconnect_delay,
                        !.clients[c].stream = "live",
                        !.active_mount = m,
                        !.mount_status[m] = connected_status(@),
                        !.tasks[t].client = 0, !.tasks[t].pc = "none"],
                     t, TRUE))
              ELSE SetMM(DisconnectActive(
                     [MMState EXCEPT
                        !.clients[c].session = FALSE,
                        !.mount_status[m].consecutive_failures = @ + 1,
                        !.tasks[t].client = 0, !.tasks[t].pc = "none"],
                     t, "failed"))

\* the monitor's wait_for times out: one round of _monitor_connections
MonitorTick(t) ==
    /\ UNCHANGED <<nonMM, api_calls>>
    /\ tasks[t].kind = "monitor" /\ tasks[t].pc = "sleep"
    /\ ~ mm_stop_event
    /\ tasks[t].timer >= health_check_interval
    /\ IF ~ mm_running THEN SetMM(EndTask(MMState, t))
       ELSE SetMM(CheckConnectionHealth(MMState, t))

\* _correction_received(rtcm_data), called by the stream task of client c
\* with a valid frame: the frame is counted on the active mount when there
\* is one, and handed to correction_callback in either case.  mmLast tells
\* the client the frame came from and the descriptor it was counted on.
FrameReceived(c) ==
    /\ clients[c].stream = "live"
    /\ SetMM([MMState EXCEPT
          !.mount_status =
              IF active_mount # "none"
              THEN [@ EXCEPT ![active_mount].last_data_time = 0]
              ELSE @,
          !.mmLast = [op |-> "correction", ret |-> TRUE, start |-> "none",
                      client |-> c, mount |-> active_mount]])

\* a stream task passes a valid frame to _correction_received
StreamFrame(c) ==
    /\ UNCHANGED <<nonMM, api_calls>>
    /\ FrameReceived(c)

\* the response body ends: _stream_corrections returns
StreamEnd(c) ==
    /\ UNCHANGED <<nonMM, api_calls>>
    /\ clients[c].stream = "live"
    /\ SetMM([MMState EXCEPT !.clients[c].stream = "ended"])

\* reading the body raises: _stream_corrections calls _attempt_reconnect
StreamError(c) ==
    /\ UNCHANGED <<nonMM, api_calls>>
    /\ clients[c].stream = "live"
    /\ SetMM([MMState EXCEPT !.clients[c].stream =
                IF clients[c].connected THEN "retry" ELSE "ended"])

\* _attempt_reconnect's connect succeeds: the delay doubled after the sleep
\* is reset by connect, which starts a new stream task
Reconnected(c) ==
    /\ UNCHANGED <<nonMM, api_calls>>
    /\ clients[c].stream = "retry"
    /\ SetMM([MMState EXCEPT
          !.clients[c].stream = "live",
          !.clients[c].session = TRUE,
          !.clients[c].reconnect_delay = initial_reconnect_delay])

\* the delay of the next attempt without the ceiling
doubled_reconnect_delay(delay) == delay * 2

\* `min(self.reconnect_delay * 2, self.max_reconnect_delay)`
next_reconnect_delay(delay) ==
    IF delay * 2 < max_reconnect_delay THEN delay * 2 ELSE max_reconnect_delay

\* _attempt_reconnect's sleep is over, the delay is doubled and connect
\* fails: its _cleanup closes the session, stop_event is not set and
\* _attempt_reconnect calls itself, which sleeps again
ReconnectFailed(c) ==
    /\ UNCHANGED <<nonMM, api_calls>>
    /\ clients[c].stream = "retry"
    /\ ~ clients[c].stop_event
    /\ SetMM([MMState EXCEPT
          !.clients[c].session = FALSE,
          !.clients[c].reconnect_delay = next_reconnect_delay(@),
          !.mmLast = [op |-> "reconnect_failed", ret |-> FALSE,
                      start |-> "none", client |-> c, mount |-> "none"]])

\* a task that can run now, with nothing to wait for
Ready(t) ==
    \/ tasks[t].pc \in {"new", "disconnect"}
    \/ tasks[t].pc = "wait_monitor" /\ tasks[t].waitfor = 0
    \/ tasks[t].pc = "connect" /\ ~ clients[tasks[t].client].session

Due(t) ==
    \/ tasks[t].pc = "sleep" /\ tasks[t].timer >= health_check_interval
    \/ tasks[t].pc = "connect" /\ tasks[t].timer >= ConnectTimeout

Age(x, limit) == IF x = NoTime \/ x > limit THEN x ELSE x + 1

\* one unit of time passes; no timer is overdue and no task is ready to run
AdvanceTime ==
    /\ UNCHANGED <<nonMM, api_calls>>
    /\ \A t \in TaskIds : ~ Ready(t) /\ ~ Due(t)
    /\ SetMM([MMState EXCEPT
          !.mount_status = [m \in MountIds |->
              [mount_status[m] EXCEPT
                  !.last_attempt = Age(@, retry_delay),
                  !.last_data_time = Age(@, data_timeout)]],
          !.tasks = [t \in TaskIds |->
              IF tasks[t].pc \in {"sleep", "connect"}
              THEN [tasks[t] EXCEPT !.timer = @ + 1]
              ELSE tasks[t]]])

MMNext ==
    \/ \E m \in MountIds : AddMount(m, PriorityOf(m), TRUE)
    \/ \E m \in MountIds : RemoveMount(m)
    \/ StartNtripCorrections
    \/ StopNtripCorrections
    \/ \E t \in TaskIds :
          \/ DeferredDisconnect(t)
          \/ StopAfterMonitor(t)
          \/ DisconnectDone(t)
          \/ \E ok \in BOOLEAN : ConnectDone(t, ok)
          \/ MonitorTick(t)
    \/ \E c \in ClientIds :
          \/ StreamFrame(c)
          \/ StreamEnd(c)
          \/ StreamError(c)
          \/ Reconnected(c)
    \/ AdvanceTime

MMInit == DMIdle /\ RXIdle /\ SXIdle /\ MMIdle /\ FXIdle /\ RDIdle

SpecMM == MMInit /\ [][MMNext]_vars

\* the manager configured and started and then left to itself: no stop, no
\* removal
FailoverNext ==
    \/ \E m \in MountIds : AddMount(m, PriorityOf(m), TRUE)
    \/ StartNtripCorrections
    \/ \E t \in TaskIds :
          \/ DisconnectDone(t)
          \/ \E ok \in BOOLEAN : ConnectDone(t, ok)
          \/ MonitorTick(t)
    \/ \E c \in ClientIds :
          \/ StreamFrame(c)
          \/ StreamEnd(c)
          \/ StreamError(c)
          \/ Reconnected(c)
    \/ AdvanceTime

\* what the event loop guarantees: time passes, a timer that is due fires, a
\* task that can run does run, an HTTP request ends (by its timeout at the
\* latest).  Nothing is assumed of the callers and of the caster.
FailoverFairness ==
    /\ WF_vars(AdvanceTime)
    /\ WF_vars(\E t \in TaskIds : MonitorTick(t))
    /\ WF_vars(\E t \in TaskIds : DisconnectDone(t))
    /\ WF_vars(\E t \in TaskIds : \E ok \in BOOLEAN : ConnectDone(t, ok))

SpecFailover == MMInit /\ [][FailoverNext]_vars /\ FailoverFairness

\* ------------------------------------------ the answers of the caster
\* the statuses a caster answers the GET with: success, authentication
\* failure, another failure
HttpStatuses == {200, 401, 503}

\* NTRIPClient.connect: True for `response.status == 200`, False otherwise
connect_returns(status) == status = 200

\* the caster answers the request of task t with status
ConnectAnswered(t, status) ==
    ConnectDone(t, connect_returns(status))

\* the manager started and stopped against a caster that refuses credentials:
\* every request is answered with 200 or 401, streams neither end nor carry
\* frames, so that consecutive_failures counts 401 answers only
AuthNext ==
    \/ \E m \in MountIds : AddMount(m, PriorityOf(m), TRUE)
    \/ StartNtripCorrections
    \/ StopNtripCorrections
    \/ \E t \in TaskIds :
          \/ StopAfterMonitor(t)
          \/ DisconnectDone(t)
          \/ \E status \in {200, 401} : ConnectAnswered(t, status)
          \/ MonitorTick(t)
    \/ AdvanceTime

SpecAuth == MMInit /\ [][AuthNext]_vars

\* the caster accepts every request for the mount AcceptingMount that reaches
\* it (a request whose session was closed by another task fails whatever the
\* caster would answer) and answers the other requests as it likes
AcceptingMount == "m1"

AcceptingAnswer(t, ok) ==
    /\ tasks[t].pc = "connect"
    /\ (tasks[t].cur = AcceptingMount /\ clients[tasks[t].client].session)
          => ok
    /\ ConnectDone(t, ok)

\* the manager configured and started and left to itself, in front of a
\* caster that serves AcceptingMount: streams carry frames, stall, end or
\* break
ReselectNext ==
    \/ \E m \in MountIds : AddMount(m, PriorityOf(m), TRUE)
    \/ StartNtripCorrections
    \/ \E t \in TaskIds :
          \/ DisconnectDone(t)
          \/ \E ok \in BOOLEAN : AcceptingAnswer(t, ok)
          \/ MonitorTick(t)
    \/ \E c \in ClientIds :
          \/ StreamFrame(c)
          \/ StreamEnd(c)
          \/ StreamError(c)
          \/ Reconnected(c)
    \/ AdvanceTime

\* the event loop as in FailoverFairness
ReselectFairness ==
    /\ WF_vars(AdvanceTime)
    /\ WF_vars(\E t \in TaskIds : MonitorTick(t))
    /\ WF_vars(\E t \in TaskIds : DisconnectDone(t))
    /\ WF_vars(\E t \in TaskIds : \E ok \in BOOLEAN : AcceptingAnswer(t, ok))

SpecReselect == MMInit /\ [][ReselectNext]_vars /\ ReselectFairness

\* one mount whose stream breaks again and again: the client of the active
\* connection reconnects on its own, with or without success, while the
\* manager is started and stopped around it
BackoffNext ==
    \/ \E m \in {"m1"} : AddMount(m, PriorityOf(m), TRUE)
    \/ StartNtripCorrections
    \/ StopNtripCorrections
    \/ \E t \in TaskIds :
          \/ StopAfterMonitor(t)
          \/ DisconnectDone(t)
          \/ \E ok \in BOOLEAN : ConnectDone(t, ok)
          \/ MonitorTick(t)
    \/ \E c \in ClientIds :
          \/ StreamError(c)
          \/ Reconnected(c)
          \/ ReconnectFailed(c)
    \/ AdvanceTime

SpecBackoff == MMInit /\ [][BackoffNext]_vars

\* ------------------------------------- stop_all_streams and the NTRIP side
\* stop_all_streams from the return of stop_ntrip_corrections: the loop over
\* the ids registered at that moment, up to the first wait_closed.  ts are
\* the other tasks of the aggregator.
StopAllLoop(ts) ==
    \E d \in {StopLoop(DMState, drv_order)} :
        /\ SetDM(d)
        /\ dm_tasks' = IF d.suspended
                       THEN Spawn(ts, [NewTask("stop_all", "closing", d.id,
                                               d.obj) EXCEPT !.rest = d.rest])
                       ELSE ts
        /\ Cardinality(dm_tasks') <= MaxDmTasks
        /\ dmLast' = IF d.suspended THEN NoOp
                     ELSE [NoOp EXCEPT !.op = "stop_all_streams"]

\* stop_all_streams: running = False, then stop_ntrip_corrections, which
\* calls NTRIPMountManager.stop() only if ntrip_enabled is set, then the
\* loop.  A call that has to wait inside stop() is the task "stop_all" at
\* "ntrip".  One stop_all_streams is under way at a time.
StopAllStreams ==
    /\ UNCHANGED <<rxVars, sxVars, fxVars, rdVars, api_calls>>
    /\ \A x \in dm_tasks : x.kind # "stop_all"
    /\ dm_running' = FALSE
    /\ IF ntrip_enabled
       THEN /\ FreeTasks(MMState) # {}
            /\ \E n \in {Stop(MMState, Min(FreeTasks(MMState)))} :
                  /\ SetMM(n)
                  /\ IF n.mmLast.op = "stop_ntrip_corrections"
                     THEN StopAllLoop(dm_tasks)
                     ELSE /\ dm_tasks' = Spawn(dm_tasks,
                                            NewTask("stop_all", "ntrip", "", 0))
                          /\ Cardinality(dm_tasks') <= MaxDmTasks
                          /\ dmLast' = NoOp
                          /\ UNCHANGED <<drivers, driver_status,
                                         disconnect_calls>>
       ELSE /\ SetMM(MMState)
            /\ StopAllLoop(dm_tasks)
    /\ UNCHANGED <<driver_configs, drv_order, dm_connects, correction_stats,
                   dm_objs, state_callbacks, dispatched, delivered>>

\* the stop() that stop_all_streams awaits goes on, after the monitor task
\* has finished or after NTRIPClient.disconnect; when it returns,
\* stop_all_streams goes on with its loop in the same step
StopAllResume(t) ==
    /\ UNCHANGED <<rxVars, sxVars, fxVars, rdVars, api_calls>>
    /\ tasks[t].kind = "stop"
    /\ \/ tasks[t].pc = "disconnect"
       \/ tasks[t].pc = "wait_monitor" /\ tasks[t].waitfor = 0
    /\ \E w \in {x \in dm_tasks : x.kind = "stop_all" /\ x.pc = "ntrip"} :
       \E n \in {IF tasks[t].pc = "disconnect" THEN DisconnectDoneMM(t)
                  ELSE DisconnectActive(MMState, t, "stop")} :
          /\ SetMM(n)
          /\ IF n.mmLast.op = "stop_ntrip_corrections"
             THEN StopAllLoop(dm_tasks \ {w})
             ELSE UNCHANGED <<drivers, driver_status, disconnect_calls,
                             dm_tasks, dmLast>>
    /\ UNCHANGED <<driver_configs, drv_order, dm_running, dm_connects,
                   correction_stats, dm_objs, state_callbacks, dispatched,
                   delivered>>

\* a stream task of client c passes a valid frame to _correction_received of
\* the mount manager, whose correction_callback is _ntrip_correction_received
\* of the aggregator
NtripFrame(c, frame, outcome) ==
    /\ UNCHANGED <<rxVars, sxVars, fxVars, rdVars, api_calls>>
    /\ FrameReceived(c)
    /\ CorrectionReceived(frame, outcome)

\* one receiver r1 and one mount m1: the receiver is registered, connected
\* and started, NTRIP corrections are started, frames arrive, and
\* stop_all_streams is called
StopNext ==
    \/ AddDriver("r1", TypeOf("r1"))
    \/ ConnectDriverBegin("r1")
    \/ \E c \in dm_connects : ConnectDriverEnd(c, "true")
    \/ StartAllStreams
    \/ \E t \in dm_tasks : MonitorRun(t)
    \/ \E t \in dm_tasks, o \in {"ok", "raise"} : DisconnectEnd(t, o)
    \/ AddMount("m1", PriorityOf("m1"), TRUE)
    \/ api_calls < MaxStopApiCalls /\ StartNtripCorrections
    \/ \E t \in TaskIds :
          \/ tasks[t].kind # "stop" /\ DisconnectDone(t)
          \/ \E ok \in BOOLEAN : ConnectDone(t, ok)
          \/ MonitorTick(t)
          \/ StopAllResume(t)
    \/ \E c \in ClientIds, o \in [DOMAIN drivers -> InjectOutcomes] :
          NtripFrame(c, "f1", o)
    \/ AdvanceTime
    \/ StopAllStreams

SpecStop == DMInit /\ [][StopNext]_vars

\* one receiver r1 that is connected, started, disconnected (by the HTTP API,
\* by stop_all_streams, by remove_driver) and connected and started again,
\* with its monitor tasks and the fix its reader decodes
RestartNext ==
    \/ AddDriver("r1", TypeOf("r1"))
    \/ RemoveDriver("r1")
    \/ ConnectDriverBegin("r1")
    \/ \E c \in dm_connects : ConnectDriverEnd(c, "true")
    \/ StartAllStreams
    \/ StopAllStreams
    \/ DisconnectDriver("r1")
    \/ \E t \in dm_tasks : DisconnectTaskRun(t)
    \/ \E t \in dm_tasks : DisconnectEnd(t, "ok")
    \/ FixDecoded("r1", "fix1")
    \/ \E t \in dm_tasks : MonitorRun(t)

SpecRestart == DMInit /\ [][RestartNext]_vars

\* ------------------------------------------------------------------ claims

\* C1: add_driver returns False exactly when two receivers are registered
\* or the id is registered at the call; otherwise it returns True and the
\* id is registered with lifecycle DISCONNECTED; the registration count
\* never exceeds two.
C1_AddDriverCapacity ==
    /\ [](Cardinality(DOMAIN drivers) <= 2)
    /\ [][dmLast'.op = "add_driver" =>
            /\ (dmLast'.ret = FALSE) <=>
                  (\/ Cardinality(DOMAIN drivers) = 2
                   \/ dmLast'.id \in DOMAIN drivers)
            /\ dmLast'.ret =>
                  /\ DOMAIN drivers' = DOMAIN drivers \cup {dmLast'.id}
                  /\ driver_status'[dmLast'.id] = DISCONNECTED
            /\ ~dmLast'.ret => drivers' = drivers /\ driver_status' = driver_status
         ]_vars

\* the third add of three adds with distinct ids has just returned False
C1_Witness ==
    /\ dmLast.op = "add_driver"
    /\ dmLast.ret = FALSE
    /\ dmLast.id \notin DOMAIN drivers
    /\ Cardinality(DOMAIN drivers) = 2

\* C2: one correction frame is injected exactly once, with that frame, into
\* every registered receiver that is CONNECTED or STREAMING and into no
\* other receiver, whatever the earlier receivers' inject returned or raised.
C2_FanOut ==
    dmLast.op = "ntrip_correction" =>
        /\ DOMAIN dmLast.calls = DOMAIN drivers
        /\ \A id \in DOMAIN drivers :
              dmLast.calls[id] =
                 IF driver_status[id] \in {CONNECTED, STREAMING}
                 THEN <<dmLast.frame>> ELSE <<>>

\* two receivers were due the frame, the first one's inject raised and the
\* second one was still injected
C2_Witness ==
    /\ dmLast.op = "ntrip_correction"
    /\ Len(drv_order) = 2
    /\ driver_status[drv_order[1]] = CONNECTED
    /\ driver_status[drv_order[2]] = STREAMING
    /\ drv_order[1] \in DOMAIN dmLast.results
    /\ dmLast.results[drv_order[1]] = "raise"
    /\ dmLast.calls[drv_order[2]] = <<dmLast.frame>>

\* C9: however the response body is split into chunks, the frames passed
\* to the correction callback (and the bytes left in the buffer) are those of
\* the body arriving as one chunk; a body that is exactly one valid frame
\* yields that frame once and leaves the buffer empty.
C9_ChunkSplitInvariance ==
    LET one == ProcessBuffer(rx_fed, <<>>)
    IN  /\ rx_out = one.out
        /\ rx_buffer = one.buffer
        /\ (/\ Len(rx_fed) >= 6
            /\ rx_fed[1] = PREAMBLE
            /\ Len(rx_fed) = ((rx_fed[2] % 4) * 256) + rx_fed[3] + 6
            /\ validate_rtcm_crc(rx_fed))
              => rx_out = <<rx_fed>> /\ rx_buffer = <<>>

\* the valid frame D3 00 00 47 EA 4B has arrived one byte at a time
C9_Witness ==
    /\ rx_fed = <<211, 0, 0, 71, 234, 75>>
    /\ rx_bytewise
    /\ rx_out = <<rx_fed>>
    /\ rx_buffer = <<>>
    /\ corrections_sent = 1

\* C10: for the UBX and the Unicore extractor, the frames handed to the
\* decoder once the whole stream B has been read are the frames of B
\* delivered in one read, however B was split into reads.
C10_SerialSplitInvariance ==
    sx_pos = Len(sx_all) =>
        sx_out = SerialProcess(sx_kind, sx_all, <<>>).out

\* C3: in every reachable state of the mount manager, whatever the
\* interleaving of start, stop, the monitor's rounds and the disconnect task
\* of remove_mount, at most one NTRIPClient has a live stream and at most one
\* descriptor has connected = True.
C3_AtMostOneActive ==
    /\ Cardinality({c \in ClientIds : clients[c].stream = "live"}) <= 1
    /\ Cardinality({m \in MountIds : mount_status[m].connected}) <= 1

\* task t calls connect() for descriptor m in this step
AttemptBegins(t, m) ==
    /\ tasks'[t].pc = "connect" /\ tasks'[t].cur = m
    /\ tasks[t].pc # "connect" \/ tasks[t].cur # m

\* C5: a descriptor whose consecutive_failures has reached
\* max_consecutive_failures is not attempted by any selection until the count
\* has been reset, and its count is reset only when more than retry_delay has
\* passed since its last attempt.
C5_CooldownRespected ==
    [][/\ \A t \in TaskIds, m \in MountIds :
            AttemptBegins(t, m) =>
                mount_status[m].consecutive_failures < max_consecutive_failures
       /\ \A m \in MountIds :
            (/\ \E i \in 1..Len(mounts) : mounts[i] = m
             /\ mount_status[m].consecutive_failures >= max_consecutive_failures
             /\ mount_status'[m].consecutive_failures < max_consecutive_failures)
            => (/\ mount_status[m].last_attempt # NoTime
                /\ mount_status[m].last_attempt > retry_delay)]_vars

\* C6: whenever NTRIPMountManager.start returns, it returns True exactly if
\* some descriptor is connected at that moment; with no descriptor configured
\* it returns False and running is False.
C6_StartResult ==
    mmLast.start # "none" =>
        /\ (mmLast.start = "true") <=>
                (\E m \in MountIds : mount_status[m].connected)
        /\ mounts = <<>> => (mmLast.start = "false" /\ ~ mm_running)

\* C7: when stop_ntrip_corrections returns and no other call is in progress,
\* nothing is left over: no monitor task, no client stream task running, no
\* active mount, running = False.
C7_StopLeavesNothing ==
    (/\ mmLast.op = "stop_ntrip_corrections"
     /\ \A t \in TaskIds : tasks[t].kind \in {"free", "monitor"})
    => /\ \A t \in TaskIds : tasks[t].kind = "free"
       /\ \A c \in ClientIds : clients[c].stream \notin {"live", "retry"}
       /\ active_mount = "none"
       /\ ~ mm_running

\* the place of descriptor m in a list that holds it
Pos(list, m) == CHOOSE i \in 1..Len(list) : list[i] = m

\* a task record that is inside the loop of _connect_best_mount
InSelection(tk) ==
    \/ tk.pc = "connect"
    \/ tk.pc = "disconnect" /\ tk.site \in {"attempt", "failed"}

\* in this step task t enters _connect_best_mount and goes for its first
\* descriptor
SelectionBegins(t) ==
    /\ ~ InSelection(tasks[t])
    /\ InSelection(tasks'[t])

\* C4: a call of _connect_best_mount goes through the listed descriptors that
\* are enabled and have fewer than max_consecutive_failures failures, each
\* once, in the order of the key (consecutive_failures, priority) and, for
\* equal keys, of the mount list; every descriptor it calls connect() for is
\* enabled and below max_consecutive_failures; it returns False only when
\* none is left.
C4_SelectionOrder ==
    [][\A t \in TaskIds :
        /\ SelectionBegins(t) =>
             LET list == <<tasks'[t].cur>> \o tasks'[t].avail
                 ms == mount_status'
             IN  /\ \A m \in MountIds :
                       Cardinality({i \in 1..Len(list) : list[i] = m}) =
                          IF /\ \E i \in 1..Len(mounts') : mounts'[i] = m
                             /\ ms[m].enabled
                             /\ ms[m].consecutive_failures
                                   < max_consecutive_failures
                          THEN 1 ELSE 0
                 /\ \A i, j \in 1..Len(list) :
                       i < j =>
                          /\ ~ KeyLess(ms, list[j], list[i])
                          /\ ~ KeyLess(ms, list[i], list[j]) =>
                                Pos(mounts', list[i]) < Pos(mounts', list[j])
        /\ (/\ InSelection(tasks[t]) /\ InSelection(tasks'[t])
            /\ tasks'[t].cur # tasks[t].cur) =>
               /\ tasks[t].avail # <<>>
               /\ tasks'[t].cur = Head(tasks[t].avail)
               /\ tasks'[t].avail = Tail(tasks[t].avail)
        /\ \A m \in MountIds :
              AttemptBegins(t, m) =>
                 /\ mount_status'[m].enabled
                 /\ mount_status'[m].consecutive_failures
                       < max_consecutive_failures
        /\ (/\ tasks[t].kind = "start" /\ InSelection(tasks[t])
            /\ tasks'[t].kind = "free" /\ mmLast'.start = "false") =>
               tasks[t].avail = <<>>
      ]_vars

\* the stream of the active client has ended while the manager runs
StreamLost ==
    /\ mm_running
    /\ active_client # 0
    /\ active_mount # "none"
    /\ clients[active_client].stream = "ended"

\* C8: when the stream of the active connection has ended while the manager
\* runs, the monitor eventually fails over: the client whose stream ended is
\* disconnected and is no longer the active client.
C8_FailoverAfterStreamLoss ==
    StreamLost ~> ~ StreamLost

\* C11: every fix record a driver stores as its current fix has latitude
\* in [-90, 90] degrees, longitude in [-180, 180] degrees and accuracy >= 0
\* (the raw fields are any signed 32-bit or 64-bit integers in 1e-7 degree)
C11_FixInRange ==
    current_state.fix =>
        /\ NumLeq(NumOf(-900000000), current_state.latitude)
        /\ NumLeq(current_state.latitude, NumOf(900000000))
        /\ NumLeq(NumOf(-1800000000), current_state.longitude)
        /\ NumLeq(current_state.longitude, NumOf(1800000000))
        /\ NumLeq(NumOf(0), current_state.accuracy_m)

\* C12: add_driver(id) that succeeds followed by remove_driver(id) leaves
\* drivers, driver_status and driver_configs equal to what they were before
\* the add; remove_driver of an id that is not registered returns False and
\* changes nothing.
C12_AddRemoveRestores ==
    [][dmLast'.op = "remove_driver" =>
          /\ (dmLast.op = "add_driver" /\ dmLast.ret /\ dmLast.id = dmLast'.id)
                => Registration' = dmLast.before
          /\ dmLast'.id \notin DOMAIN drivers =>
                /\ dmLast'.ret = FALSE
                /\ Registration' = Registration
                /\ dm_tasks' = dm_tasks
      ]_vars

\* C13: when remove_driver(id) is called on a receiver that is not
\* DISCONNECTED, the disconnect() of that receiver's driver is invoked
\* later on: the task remove_driver created for it does not run its
\* _disconnect_driver without invoking it.
C13_RemoveDisconnects ==
    [][\A t \in dm_tasks :
          (/\ t.kind = "disconnect" /\ t.origin = "remove_driver"
           /\ t.pc = "start"
           /\ t \notin dm_tasks')
             => t.obj \in disconnect_calls'
      ]_vars

\* C14: connect_driver sets CONNECTING before it waits for the driver and,
\* whatever the driver's connect does, returns True with the lifecycle
\* CONNECTED or False with ERROR; no exception leaves it and the lifecycle
\* is not left CONNECTING; for an id that is not registered it returns
\* False and changes nothing.
C14_ConnectOutcomes ==
    [][/\ Cardinality(dm_connects') > Cardinality(dm_connects) =>
             \A c \in dm_connects' \ dm_connects :
                /\ c.id \in DOMAIN driver_status'
                /\ driver_status'[c.id] = CONNECTING
       /\ dmLast'.op = "connect_end" =>
             /\ ~ dmLast'.raised
             /\ dmLast'.id \in DOMAIN driver_status'
             /\ driver_status'[dmLast'.id] =
                   IF dmLast'.ret THEN CONNECTED ELSE ERROR
       /\ dmLast'.op = "connect_driver" =>
             /\ dmLast'.id \notin DOMAIN drivers
             /\ dmLast'.ret = FALSE
             /\ Registration' = Registration
             /\ dm_connects' = dm_connects
      ]_vars

\* the tasks a step created for receiver x
NewTasks(x) == {t \in dm_tasks' \ dm_tasks : t.id = x}

\* C15: start_all_streams changes the lifecycle only of the receivers that
\* are CONNECTED when it visits them: for each of these start_data_stream is
\* called once and it ends STREAMING with one new monitor task, or ERROR
\* (start_data_stream raised) with none; every other receiver keeps its
\* lifecycle and gets no start_data_stream call and no new task.
C15_StartAllFrame ==
    [][dmLast'.op = "start_all_streams" =>
          /\ DOMAIN driver_status' = DOMAIN driver_status
          /\ \A x \in DOMAIN driver_status \ DOMAIN drivers :
                driver_status'[x] = driver_status[x] /\ NewTasks(x) = {}
          /\ \A x \in DOMAIN drivers :
                IF driver_status[x] = CONNECTED
                THEN /\ x \in dmLast'.started
                     /\ \/ /\ driver_status'[x] = STREAMING
                           /\ drivers'[x].running
                           /\ Cardinality(NewTasks(x)) = 1
                           /\ \A t \in NewTasks(x) : t.kind = "monitor"
                        \/ /\ driver_status'[x] = ERROR
                           /\ ~ drivers[x].writer
                           /\ drivers'[x] = drivers[x]
                           /\ NewTasks(x) = {}
                ELSE /\ x \notin dmLast'.started
                     /\ driver_status'[x] = driver_status[x]
                     /\ drivers'[x] = drivers[x]
                     /\ NewTasks(x) = {}
      ]_vars

\* start_all_streams has just started one receiver and found the other,
\* which was CONNECTED without a serial link, unable to start
C15_Witness ==
    /\ dmLast.op = "start_all_streams"
    /\ Cardinality(dmLast.started) = 2
    /\ Cardinality(dmLast.spawned) = 1
    /\ \E x \in DOMAIN drivers : driver_status[x] = ERROR
    /\ \E x \in DOMAIN drivers : driver_status[x] = STREAMING

\* C16: every fix update the monitor of a receiver dispatches reaches the
\* body of each registered sink, plain or async, in the order of the sinks,
\* before the monitor does anything else: the step that dispatches an update
\* extends the log of sink bodies run by one entry per registered sink, for
\* that receiver and that fix.
C16_DispatchReachesSinks ==
    [][Len(dispatched') > Len(dispatched) =>
         LET u == dispatched'[Len(dispatched')]
         IN  /\ Len(delivered') = Len(delivered) + Len(state_callbacks)
             /\ \A i \in 1..Len(state_callbacks) :
                    Len(delivered) + i <= Len(delivered') =>
                    delivered'[Len(delivered) + i] =
                        [sink |-> i, id |-> u.id, fix |-> u.fix]]_vars

\* C17: inject_corrections(id, bytes) raises nothing; it returns False and
\* writes nothing when id is not registered or its driver has no serial
\* writer; a write that raises is reported as False; it returns True only
\* when the bytes, unmodified, were written to the writer of that receiver.
C17_InjectResult ==
    [][dmLast'.op = "inject_corrections" =>
         LET id == dmLast'.id
             open == id \in DOMAIN drivers /\ drivers[id].writer
         IN  /\ ~ dmLast'.raised
             /\ ~ open => (~ dmLast'.ret /\ dmLast'.written = ""
                            /\ dmLast'.results = EmptyDict)
             /\ (open /\ dmLast'.results[id] = "raise") => ~ dmLast'.ret
             /\ dmLast'.ret => (open /\ dmLast'.written = dmLast'.frame
                                /\ dmLast'.results[id] = "ok")]_vars

\* a write to the open serial writer of r1 raised and False was returned
C17_Witness ==
    /\ dmLast.op = "inject_corrections" /\ dmLast.id = "r1"
    /\ "r1" \in DOMAIN drivers /\ drivers["r1"].writer
    /\ dmLast.results = [x \in {"r1"} |-> "raise"]
    /\ dmLast.written \in Frames
    /\ ~ dmLast.ret

\* stop() of the mount manager has returned and start() has not begun a new
\* run since: running is False, the stop event is set, no stop() is under way
Stopped ==
    /\ ~ mm_running
    /\ mm_stop_event
    /\ \A t \in TaskIds : tasks[t].kind # "stop"

\* C19: once stop() has returned and until the next start(), no active
\* mount exists and no frame is forwarded to the application callback; and
\* every frame forwarded at any time comes from the client of the active
\* mount of that moment and is counted on that descriptor.
C19_ForwardOnlyActive ==
    [][/\ Stopped' => active_mount' = "none"
       /\ mmLast'.op = "correction" =>
             /\ ~ Stopped
             /\ active_mount # "none"
             /\ mmLast'.client = active_client
             /\ mmLast'.mount = active_mount]_vars

\* in this step the monitor task t ends a round and goes back to its sleep
RoundEnds(t) ==
    /\ tasks[t].kind = "monitor"
    /\ tasks[t].pc # "sleep" \/ tasks[t].timer >= health_check_interval
    /\ tasks'[t].kind = "monitor" /\ tasks'[t].pc = "sleep"
    /\ tasks'[t].timer = 0

\* C20: in a running manager, the monitor round that ends while a listed
\* descriptor has max_consecutive_failures or more failures and its last
\* attempt is more than retry_delay old resets that descriptor's count to 0;
\* and a selection starts with a descriptor of the smallest key (failure
\* count, priority), so that a descriptor whose count was reset is attempted
\* before every descriptor with the same count and a larger priority number.
C20_CooldownReset ==
    [][\A t \in TaskIds :
        /\ (RoundEnds(t) /\ mm_running') =>
              \A m \in MountIds :
                 (/\ \E i \in 1..Len(mounts) : mounts[i] = m
                  /\ \E i \in 1..Len(mounts') : mounts'[i] = m
                  /\ mount_status[m].consecutive_failures
                        >= max_consecutive_failures
                  /\ mount_status[m].last_attempt # NoTime
                  /\ mount_status[m].last_attempt > retry_delay)
                 => mount_status'[m].consecutive_failures = 0
        /\ SelectionBegins(t) =>
              \A m \in MountIds :
                 (/\ \E i \in 1..Len(mounts') : mounts'[i] = m
                  /\ mount_status'[m].enabled
                  /\ mount_status'[m].consecutive_failures
                        < max_consecutive_failures)
                 => ~ KeyLess(mount_status', m, tasks'[t].cur)
      ]_vars

\* a monitor round has just reset the count of m1 while m2 is listed too
C20_Witness ==
    /\ mmLast.op = "monitor_round"
    /\ "m1" \in mmLast.reset
    /\ mounts = <<"m1", "m2">>
    /\ mm_running
    /\ mount_status["m1"].consecutive_failures = 0

\* C18: stop_all_streams stops NTRIP before it disconnects a receiver: no
\* correction frame is handed to a receiver whose disconnect is under way;
\* and when stop_all_streams returns, every registered receiver is
\* DISCONNECTED or ERROR, no NTRIP client streams and no mount is active,
\* and running is False.
C18_StopAllStreams ==
    [][/\ correction_stats'.total_corrections
            > correction_stats.total_corrections =>
          \A id \in DOMAIN drivers :
             dmLast'.calls[id] # <<>> =>
                \A t \in dm_tasks :
                   ~ (t.pc = "closing" /\ t.obj = drivers[id].obj)
       /\ (/\ dmLast'.op = "stop_all_streams"
           /\ dmVars' # dmVars \/ mmLast'.op = "stop_ntrip_corrections") =>
          /\ \A id \in DOMAIN drivers' :
                driver_status'[id] \in {DISCONNECTED, ERROR}
          /\ \A c \in ClientIds : clients'[c].stream \notin {"live", "retry"}
          /\ active_mount' = "none"
          /\ ~ dm_running']_vars

\* C29: in every state and for every descriptor, consecutive_failures is at
\* least 0 and at most max_consecutive_failures.
C29_FailuresBounded ==
    \A m \in MountIds :
        /\ mount_status[m].consecutive_failures >= 0
        /\ mount_status[m].consecutive_failures <= max_consecutive_failures

\* no coroutine of the manager is suspended inside a connection attempt or
\* inside a disconnect
NoAttemptOrDisconnectSuspended ==
    \A t \in TaskIds : tasks[t].pc \notin {"connect", "disconnect"}

\* C30: whenever no manager operation is suspended in a connection attempt
\* or a disconnect, a listed descriptor is connected exactly if it is the
\* active mount, and an active mount has an active client and is a member
\* of the mount list.
C30_ActiveConsistent ==
    NoAttemptOrDisconnectSuspended =>
        /\ \A i \in 1..Len(mounts) :
              mount_status[mounts[i]].connected <=> active_mount = mounts[i]
        /\ active_mount # "none" =>
              /\ active_client # 0
              /\ \E i \in 1..Len(mounts) : mounts[i] = active_mount

\* a call of stop() cancels the monitor task in this step
MonitorCancelled ==
    \E u \in TaskIds : tasks[u].kind # "stop" /\ tasks'[u].kind = "stop"

\* connect() returns False to _attempt_connection, run by task t, in this step
ConnectFails(t) ==
    /\ tasks[t].pc = "connect"
    /\ ~ MonitorCancelled
    /\ tasks'[t].pc # "connect" \/ tasks'[t].client # tasks[t].client
    /\ ~ clients'[tasks[t].client].connected

\* _attempt_connection, run by task t, returns False in this step: either
\* connect() fails and the disconnect that follows does not suspend, or the
\* suspended disconnect of the failure branch ends
AttemptFails(t) ==
    \/ /\ ConnectFails(t)
       /\ tasks'[t].pc # "disconnect"
    \/ /\ tasks[t].pc = "disconnect" /\ tasks[t].site = "failed"
       /\ tasks'[t].pc # "disconnect"

\* connect() returns True to _attempt_connection, run by task t, in this step
AttemptSucceeds(t) ==
    /\ tasks[t].pc = "connect"
    /\ tasks'[t].pc # "connect"
    /\ clients'[tasks[t].client].connected

Stalled ==
    /\ active_mount # "none" /\ active_client # 0
    /\ clients[active_client].connected
    /\ mount_status[active_mount].last_data_time # NoTime
    /\ mount_status[active_mount].last_data_time > data_timeout

\* the monitor task t runs a round of _monitor_connections in this step
HealthCheckRuns(t) ==
    /\ tasks[t].kind = "monitor" /\ tasks[t].pc = "sleep"
    /\ mm_running /\ ~ MonitorCancelled
    /\ tasks'[t].pc # "sleep" \/ tasks'[t].timer < tasks[t].timer

\* C25: a health check that finds the active connection connected, with
\* last_data_time set and more than data_timeout old, performs one failover:
\* the active descriptor's consecutive_failures grows by exactly one, the
\* active connection is disconnected and the selection is run again; nothing
\* is reported to a caller.
C25_StallFailover ==
    [][\A t \in TaskIds :
          /\ (HealthCheckRuns(t) /\ Stalled) =>
                /\ mount_status'[active_mount].consecutive_failures =
                      mount_status[active_mount].consecutive_failures + 1
                /\ clients'[active_client].stream \notin {"live", "retry"}
                /\ \/ tasks'[t].pc = "disconnect" /\ tasks'[t].site = "failover"
                   \/ tasks'[t].pc = "connect" /\ active_mount' = "none"
                   \/ tasks'[t].pc = "sleep" /\ active_mount' = "none"
                                            /\ active_client' = 0
                /\ mmLast'.op \in {"none", "monitor_round"}
          /\ (/\ tasks[t].pc = "disconnect" /\ tasks[t].site = "failover"
              /\ tasks'[t].pc # "disconnect") =>
                /\ active_mount' = "none"
                /\ \/ tasks'[t].pc = "connect"
                   \/ active_client' = 0]_vars

C25_Witness ==
    \E t \in TaskIds :
        /\ tasks[t].kind = "monitor"
        /\ tasks[t].pc = "disconnect" /\ tasks[t].site = "failover"
        /\ clients[tasks[t].client].connected
        /\ active_mount # "none"
        /\ mount_status[active_mount].last_data_time > data_timeout
        /\ mount_status[active_mount].consecutive_failures = 1

\* C26: a descriptor that has just become active is not failed over for a
\* data stall before data_timeout has passed since it became active: a health
\* check that runs while the attempt that made the descriptor active began no
\* more than retry_delay ago (retry_delay < data_timeout) does not count a
\* failure on it, whatever last_data_time an earlier connection has left.
C26_NoStallOnNewConnection ==
    [][\A t \in TaskIds :
          (/\ HealthCheckRuns(t)
           /\ active_mount # "none" /\ active_client # 0
           /\ clients[active_client].connected
           /\ mount_status[active_mount].last_attempt # NoTime
           /\ mount_status[active_mount].last_attempt <= retry_delay)
          => mount_status'[active_mount].consecutive_failures
                <= mount_status[active_mount].consecutive_failures]_vars

\* C27: when NTRIPMountManager.stop returns (stop_ntrip_corrections then
\* clears ntrip_enabled), running is False, the monitor task has finished,
\* active_mount and active_client are None, no descriptor is connected, and
\* last_attempt and last_data_time of every descriptor are cleared.
C27_StopClearsAll ==
    [][(ntrip_enabled /\ ~ ntrip_enabled') =>
          /\ ~ mm_running'
          /\ \A t \in TaskIds : tasks'[t].kind # "monitor"
          /\ active_mount' = "none" /\ active_client' = 0
          /\ \A i \in 1..Len(mounts') :
                /\ ~ mount_status'[mounts'[i]].connected
                /\ mount_status'[mounts'[i]].last_attempt = NoTime
                /\ mount_status'[mounts'[i]].last_data_time = NoTime]_vars

\* C22: a descriptor whose connect attempt was answered with HTTP 401 is not
\* attempted again until the cooldown has reset it: against a caster whose
\* only refusal is 401, every attempt goes to a descriptor whose
\* consecutive_failures is 0.
C22_AuthFailureNotRetried ==
    [][\A t \in TaskIds, m \in MountIds :
          AttemptBegins(t, m) => mount_status[m].consecutive_failures = 0]_vars

\* the monitor tasks of receiver id that have polled and sleep
Monitors(id) ==
    {t \in dm_tasks : t.kind = "monitor" /\ t.id = id /\ t.pc = "sleep"}

\* C21: after any sequence of connect_driver, start_all_streams,
\* stop_all_streams, _disconnect_driver and remove_driver, a registered
\* receiver that is streaming has at most one live monitor task (so that no
\* fix is dispatched to a sink twice).
C21_OneMonitor ==
    \A id \in DOMAIN drivers :
        (dm_running /\ driver_status[id] = STREAMING) =>
            Cardinality(Monitors(id)) <= 1

\* C23: from the return of disconnect() until start_data_stream is called
\* after a new connect, get_current_state() returns None; and a reader task
\* that was suspended in its read when disconnect() ran stores no fix once
\* disconnect() has returned.
C23_NoFixAfterDisconnect ==
    /\ [](rd_phase \in {"disconnected", "connected"} => rd_state = NoFix)
    /\ [][(rd_state' # rd_state /\ rdLast'.op = "store" /\ rd_closing = 0)
            => ~ rdLast'.old]_vars

\* C24: a reader task whose serial read fails is gone after a bounded number
\* of retries: whenever a task has a read of a failed link pending, it ends at
\* some later time.
C24_ReaderGivesUp ==
    \A t \in ReaderIds :
        (rd_tasks[t].pc = "read" /\ rd_links[rd_tasks[t].on] = "broken")
            ~> (rd_tasks[t].pc = "free")

\* C38: in every reachable state of the aggregator the key sets of drivers,
\* driver_status and driver_configs are equal, also when remove_driver(id)
\* runs while a connect_driver(id) or _disconnect_driver(id) of the same id
\* is suspended at the driver await and resumes later.
C38_RegistrationKeysEqual ==
    /\ DOMAIN drivers = DOMAIN driver_status
    /\ DOMAIN drivers = DOMAIN driver_configs

\* C39: when remove_driver(id) was called on a receiver that was not
\* DISCONNECTED and add_driver registered the id again before the task of
\* the removal ran, that task neither invokes disconnect() of the new
\* registration's driver nor changes the new registration's lifecycle.
C39_RemovalTaskSparesNewDriver ==
    [][\A t \in dm_tasks :
          (/\ t.kind = "disconnect" /\ t.origin = "remove_driver"
           /\ t.pc = "start"
           /\ t \notin dm_tasks'
           /\ t.id \in DOMAIN drivers
           /\ drivers[t.id].obj # t.obj)
             => /\ drivers[t.id].obj \notin disconnect_calls' \ disconnect_calls
                /\ t.id \in DOMAIN driver_status'
                /\ driver_status'[t.id] = driver_status[t.id]
                /\ drivers' = drivers
      ]_vars

\* a monitor task of a receiver that is STREAMING, about to run a round
Polling(t) ==
    /\ t.kind = "monitor"
    /\ dm_running
    /\ t.id \in DOMAIN drivers
    /\ t.id \in DOMAIN driver_status
    /\ driver_status[t.id] = STREAMING

\* C34: the monitor of a STREAMING receiver dispatches (receiver, fix) in a
\* round exactly when the fix it polls is not None and differs by value from
\* the fix it dispatched last; it dispatches no empty fix and no fix twice
\* in a row, and the updates are logged in the order they were polled.
C34_DispatchOnChange ==
    [][/\ \A t \in dm_tasks \ dm_tasks' :
            (Polling(t) /\ dmLast'.op # "monitor_raised") =>
               LET seen == drivers[t.id].state
                   due == seen # NoFix /\ seen # t.last
               IN  /\ due => dispatched' =
                               Append(dispatched, [id |-> t.id, fix |-> seen])
                   /\ ~ due => dispatched' = dispatched /\ delivered' = delivered
                   /\ \E u \in dm_tasks' \ (dm_tasks \ {t}) :
                         /\ u.kind = "monitor" /\ u.id = t.id /\ u.pc = "sleep"
                         /\ u.last = IF due THEN seen ELSE t.last
       /\ dispatched' # dispatched =>
            /\ Len(dispatched') = Len(dispatched) + 1
            /\ SubSeq(dispatched', 1, Len(dispatched)) = dispatched
            /\ LET u == dispatched'[Len(dispatched')]
               IN  /\ u.fix # NoFix
                   /\ \E t \in dm_tasks \ dm_tasks' :
                         Polling(t) /\ t.id = u.id /\ t.last # u.fix
                                    /\ drivers[t.id].state = u.fix
      ]_vars

\* a monitor dispatched two fixes one after the other and has polled the
\* second one again since without dispatching it
C34_Witness ==
    /\ Len(dispatched) = 2
    /\ dispatched[1].fix # dispatched[2].fix
    /\ "r1" \in DOMAIN drivers
    /\ drivers["r1"].state = dispatched[2].fix
    /\ Cardinality({t \in dm_tasks : t.kind = "monitor"}) = 1
    /\ \E t \in dm_tasks :
          t.kind = "monitor" /\ t.pc = "sleep" /\ t.last = dispatched[2].fix

\* the sinks whose call runs a body, in list order
PlainSinks ==
    SelectSeq([i \in 1..Len(state_callbacks) |-> i],
              LAMBDA i : state_callbacks[i] # "async")

\* C35: when a sink raises while an update is dispatched, the sinks after it
\* are still called with that update, the monitor task goes on (it sleeps
\* and polls again) and the lifecycle stays STREAMING; a monitor ends with
\* the lifecycle set to ERROR only when the driver's get_current_state
\* raised.
C35_SinkErrorContained ==
    [][/\ (/\ dispatched' # dispatched
           /\ \E i \in 1..Len(state_callbacks) : state_callbacks[i] = "raises")
          => LET u == dispatched'[Len(dispatched')]
             IN  /\ delivered' = delivered \o
                        [k \in 1..Len(PlainSinks) |->
                            [sink |-> PlainSinks[k], id |-> u.id, fix |-> u.fix]]
                 /\ u.id \in DOMAIN driver_status'
                 /\ driver_status'[u.id] = STREAMING
                 /\ \E t \in dm_tasks' :
                       /\ t.kind = "monitor" /\ t.id = u.id /\ t.pc = "sleep"
                       /\ t.last = u.fix
       /\ \A t \in dm_tasks \ dm_tasks' :
            (/\ Polling(t)
             /\ driver_status'[t.id] = ERROR
             /\ ~ \E u \in dm_tasks' \ (dm_tasks \ {t}) :
                     u.kind = "monitor" /\ u.id = t.id)
               => dmLast'.op = "monitor_raised"
       /\ dmLast'.op = "monitor_raised" =>
            /\ driver_status'[dmLast'.id] = ERROR
            /\ dispatched' = dispatched /\ delivered' = delivered
      ]_vars

\* an update went to a sink that raised and then to the sink registered
\* after it; the monitor sleeps and the receiver is STREAMING
C35_Witness ==
    /\ state_callbacks = <<"raises", "sync">>
    /\ Len(dispatched) = 1
    /\ delivered = <<[sink |-> 1, id |-> "r1", fix |-> dispatched[1].fix],
                     [sink |-> 2, id |-> "r1", fix |-> dispatched[1].fix]>>
    /\ "r1" \in DOMAIN driver_status /\ driver_status["r1"] = STREAMING
    /\ \E t \in dm_tasks : t.kind = "monitor" /\ t.pc = "sleep"
                           /\ t.last = dispatched[1].fix

\* the length of the candidate frame that begins at byte i of body, from
\* its 10-bit length field; 0 when no preamble with a length field is there
CandidateLen(body, i) ==
    IF i + 2 <= Len(body) /\ body[i] = PREAMBLE
    THEN ((body[i + 1] % 4) * 256) + body[i + 2] + 6
    ELSE 0

\* the CRC-valid frames that are complete in body, as <<first, last>>
ValidFrames(body) ==
    {<<j, j + CandidateLen(body, j) - 1>> : j \in
        {j \in 1..Len(body) :
            /\ CandidateLen(body, j) > 0
            /\ j + CandidateLen(body, j) - 1 <= Len(body)
            /\ validate_rtcm_crc(SubSeq(body, j,
                                        j + CandidateLen(body, j) - 1))}}

\* C32: when the body begins with a preamble whose candidate frame is
\* complete but fails the CRC, the extractor resumes at the byte after that
\* preamble: a valid frame that begins inside the span of the rejected
\* candidate and is complete in the body is passed to the callback.
C32_ResumeAfterPreamble ==
    LET n == CandidateLen(rx_fed, 1)
    IN  (/\ n > 0 /\ n <= Len(rx_fed)
         /\ ~ validate_rtcm_crc(SubSeq(rx_fed, 1, n)))
           => \A f \in ValidFrames(rx_fed) :
                 (1 < f[1] /\ f[1] <= n) =>
                    \E x \in 1..Len(rx_out) :
                        rx_out[x] = SubSeq(rx_fed, f[1], f[2])

\* the frames of out occur in body one after the other, from byte from on
RECURSIVE InOrder(_, _, _)
InOrder(out, body, from) ==
    IF out = <<>> THEN TRUE
    ELSE \E p \in from..Len(body) :
            /\ p + Len(Head(out)) - 1 <= Len(body)
            /\ SubSeq(body, p, p + Len(Head(out)) - 1) = Head(out)
            /\ InOrder(Tail(out), body, p + Len(Head(out)))

\* C33: what is passed to the correction callback are CRC-valid frames only,
\* each complete (header, payload and CRC) and in the order of arrival;
\* corrections_sent counts exactly these, so a complete frame with a wrong
\* CRC is not forwarded and not counted, while bytes_received counts every
\* byte of the body.
C33_OnlyValidForwarded ==
    /\ \A x \in 1..Len(rx_out) :
          /\ CandidateLen(rx_out[x], 1) = Len(rx_out[x])
          /\ <<1, Len(rx_out[x])>> \in ValidFrames(rx_out[x])
    /\ InOrder(rx_out, rx_fed, 1)
    /\ corrections_sent = Len(rx_out)
    /\ bytes_received = Len(rx_fed)
    /\ \A n \in 1..Len(rx_fed) :
          (/\ CandidateLen(rx_fed, 1) = n
           /\ <<1, n>> \notin ValidFrames(rx_fed))
             => \A x \in 1..Len(rx_out) : rx_out[x] # SubSeq(rx_fed, 1, n)

\* a complete frame with a wrong CRC was followed by a valid one: only the
\* second was forwarded and counted, all thirteen bytes were counted
C33_Witness ==
    /\ rx_fed = <<211, 0, 0, 0, 0, 0, 211, 0, 1, 0, 10, 24, 141>>
    /\ rx_out = <<SubSeq(rx_fed, 7, 13)>>
    /\ rx_buffer = <<>>
    /\ corrections_sent = 1
    /\ bytes_received = 13

\* the glossary's quality table for variant B, in the names of FixType
\* (RTK-FIXED is FIX, RTK-FLOAT is FLOAT, DIFFERENTIAL is DGPS, NONE is
\* NO_FIX)
GlossaryQuality(status) ==
    IF status = SOL_COMPUTED THEN "FIX"
    ELSE IF status = INTEGRITY_WARNING THEN "FLOAT"
    ELSE IF status \in {COV_TRACE, TEST_DIST, V_H_LIMIT, VARIANCE, RESIDUALS,
                        DELTA_POS, NEGATIVE_VAR, INS_INACTIVE, INS_ALIGNING,
                        INS_BAD, IMU_UNPLUGGED}
    THEN "DGPS"
    ELSE "NO_FIX"

\* the frames _process_unicore_message decodes: id 42 and a record stored
Decoded(head) ==
    /\ head[1] + (256 * head[2]) = 42
    /\ parse_unicore_bestpos(BestposOf(head)).fix

\* C40: the fix quality stored for a decoded BESTPOS frame is the glossary
\* table's value for the NUL-trimmed sixteen-byte status read from the frame
\* (NONE for a status that is not in the table), and among the frames the
\* driver decodes there are frames whose status is SOL_COMPUTED, which are
\* stored as RTK-FIXED.
C40_QualityFromStatus ==
    /\ (fixLast.op = "unicore_frame" /\ fixLast.stored) =>
          current_state.fix_type = GlossaryQuality(strip_nul(fixLast.head))
    /\ \E head \in StatusHeads :
          /\ Decoded(head)
          /\ strip_nul(head) = SOL_COMPUTED
          /\ status_map_get(strip_nul(head)) = "FIX"

\* a reconnect attempt of client c: _attempt_reconnect goes on after its sleep
ReconnectAttempt(c) ==
    /\ clients[c].stream = "retry"
    /\ \/ mmLast'.op = "reconnect_failed" /\ mmLast'.client = c
       \/ clients'[c].stream = "live"

\* C36: reconnect_delay of every client is within 1..60 and is 1 for a client
\* that never connected; a reconnect attempt that fails sets it to
\* min(2 x previous, 60); every step that starts a stream task (a successful
\* connect) leaves it at 1; a client whose disconnect() has been called has
\* no reconnecting stream task and makes no reconnect attempt.
C36_ReconnectDelay ==
    /\ [](\A c \in ClientIds :
            /\ clients[c].reconnect_delay \in 1..60
            /\ clients[c].stream = "none" => clients[c].reconnect_delay = 1
            /\ clients[c].stop_event => clients[c].stream # "retry")
    /\ [][\A c \in ClientIds :
            /\ (mmLast'.op = "reconnect_failed" /\ mmLast'.client = c)
                  => clients'[c].reconnect_delay =
                        Min({2 * clients[c].reconnect_delay, 60})
            /\ (clients[c].stream # "live" /\ clients'[c].stream = "live")
                  => clients'[c].reconnect_delay = 1
            /\ ReconnectAttempt(c)
                  => ~ clients[c].stop_event /\ ~ clients'[c].stop_event]_vars

\* a failed reconnect attempt has left the delay at the ceiling
C36_Witness ==
    /\ mmLast.op = "reconnect_failed"
    /\ clients[mmLast.client].reconnect_delay = 60
    /\ clients[mmLast.client].stream = "retry"

\* disconnect() of the driver has just returned: after wait_closed, or at once
\* when the driver held no writer
RdDisconnectReturned ==
    \/ rdLast.op = "disconnect_end"
    \/ rdLast.op = "disconnect" /\ rd_closing = 0

\* C37: when a receiver driver's disconnect() returns, the reader task it
\* stops has finished: no task that was suspended in a read when disconnect()
\* was called is still reading an open link.
C37_DisconnectAwaitsReader ==
    RdDisconnectReturned =>
        \A t \in ReaderIds :
            ~ /\ rd_tasks[t].old
              /\ rd_tasks[t].pc = "read"
              /\ rd_links[rd_tasks[t].on] = "open"

\* the manager runs without an active connection while the mount the caster
\* serves is listed, enabled and below the failure limit
NoActiveButAvailable ==
    /\ mm_running
    /\ active_mount = "none"
    /\ \E i \in 1..Len(mounts) : mounts[i] = AcceptingMount
    /\ mount_status[AcceptingMount].enabled
    /\ mount_status[AcceptingMount].consecutive_failures
          < max_consecutive_failures

\* the timeout of the monitor's wait has fired: task t runs one round
MonitorTicked(t) ==
    /\ tasks[t].kind = "monitor"
    /\ tasks[t].pc = "sleep"
    /\ tasks[t].timer >= health_check_interval
    /\ tasks'[t] # tasks[t]

\* C31: while the manager runs with no active connection and a mount that
\* would accept is enabled and below the failure limit, the round of the
\* monitor that follows its tick starts a selection (the monitor is left in
\* the middle of a connection attempt), and from every such state an active
\* connection is established eventually.
C31_ReselectConnects ==
    /\ [][\A t \in TaskIds :
            (NoActiveButAvailable /\ MonitorTicked(t))
                => /\ tasks'[t].pc \in {"connect", "disconnect"}
                   /\ tasks'[t].cur # "none"]_vars
    /\ NoActiveButAvailable ~> active_mount # "none"

\* the monitor has re-run selection and its request to the mount the caster
\* serves is under way while the manager has no active connection
C31_Witness ==
    /\ NoActiveButAvailable
    /\ monitor_task # 0
    /\ tasks[monitor_task].kind = "monitor"
    /\ tasks[monitor_task].pc = "connect"
    /\ tasks[monitor_task].cur = AcceptingMount

====
